---- MODULE Spec2Model ----
(***************************************************************************)
(* Model of the funding-scraper pipeline (src/main.py, src/ai_analyzer.py, *)
(* src/database_manager.py): the processor stage with its worker pool, the *)
(* admission gate, the classifier calls with their retries, the per-item   *)
(* decision logic and the batched status update.                           *)
(***************************************************************************)
EXTENDS Integers, Sequences, FiniteSets, TLC

(***************************************************************************)
(* Bounds of the model.                                                    *)
(***************************************************************************)
\* Number of raw records (links) in the raw store.
NumLinks == 2
\* Number of successive runs of the processor stage that are explored.
MaxRuns == 2
\* config.MAX_CONCURRENT_AI_CALLS is 5 in src/config.py:8.  The pool size and
\* the gate capacity are both read from it; the model is explored for a
\* scaled-down cap, smaller than the number of pending records, so that
\* records do queue behind the cap.
MAX_CONCURRENT_AI_CALLS == 1
\* Longest list of links a fetch adapter finds on its site in one run.
MaxScraped == 1
\* get_all_scraped_links reads pages of 1000 rows (src/database_manager.py:48);
\* the model is explored for a scaled-down page, so that a read can fail
\* between two pages of a small store.
page_size == 1
\* Longest eligible and excluded list the geography rule is evaluated on.
MaxLocations == 2
\* The last day, as YYYYMMDD, the clock is advanced to between maintenance runs.
LastDay == 20250102
\* Longest response text, in segments of prose and of brace-delimited text,
\* the extraction of the JSON object is evaluated on.
MaxSegments == 3

(***************************************************************************)
(* Program constants.                                                      *)
(***************************************************************************)
\* _call_gemini_with_retry(prompt, retries=3, base_delay=5)
retries == 3
base_delay == 5
\* date.today(), as YYYYMMDD (the spec's scenario evaluates against 2025-01-01)
today == 20250101
\* config.STALE_OPPORTUNITY_MONTHS
STALE_OPPORTUNITY_MONTHS == 9

Links == 1..NumLinks

(***************************************************************************)
(* JSON values as the classifier can return them.                          *)
(***************************************************************************)
Str(s) == [t |-> "str", v |-> s]
List(s) == [t |-> "list", v |-> s]
Null == [t |-> "null"]

Range(s) == {s[i] : i \in 1..Len(s)}

\* Python's `sub in s` on the strings of the model's vocabulary.
Contains(s, sub) ==
    CASE sub = "AI call failed" -> s \in {"AI call failed after retries."}
      [] sub = "malformed JSON" -> s \in {"AI returned malformed JSON."}
      [] sub = "No JSON object" -> s \in {"No JSON object in AI response."}
      [] OTHER -> FALSE

\* str(g).lower().strip() on the location strings of the model's vocabulary.
LowerStrip(s) ==
    CASE s = "Ethiopia" -> "ethiopia"
      [] s = " ETHIOPIA " -> "ethiopia"
      [] s = "East Africa" -> "east africa"
      [] s = "Global" -> "global"
      [] s = "Somalia" -> "somalia"
      [] s = "Nigeria" -> "nigeria"
      [] OTHER -> s

\* [str(g).lower().strip() for g in locations]
LowerStripAll(locations) == [i \in 1..Len(locations) |-> LowerStrip(locations[i])]

general_scopes ==
    {"east africa", "horn of africa", "africa", "sub-saharan africa",
     "global", "international", "developing countries"}

\* is_relevant_for_ethiopia raises TypeError when a list field is null: the
\* comprehension iterates over None.
GeoRaises(geo_data) ==
    geo_data.eligible.t = "null" \/ geo_data.excluded.t = "null"

InGeneralScopes(loc) == loc \in general_scopes
NotInGeneralScopes(loc) == loc \notin general_scopes

\* The explicit inclusion tested before the explicit exclusion.
is_relevant_inclusion_first(geo) ==
    LET eligible == LowerStripAll(geo.eligible.v)
        excluded == LowerStripAll(geo.excluded.v)
        specific_countries_found == SelectSeq(eligible, NotInGeneralScopes)
        acceptable_general_scopes == SelectSeq(eligible, InGeneralScopes)
    IN  IF "ethiopia" \in Range(eligible)
          THEN [relevant |-> TRUE, reason |-> "Explicitly includes Ethiopia", scopes |-> <<>>]
        ELSE IF "ethiopia" \in Range(excluded)
          THEN [relevant |-> FALSE, reason |-> "Explicitly excludes Ethiopia", scopes |-> <<>>]
        ELSE IF specific_countries_found # <<>>
          THEN [relevant |-> FALSE,
                reason |-> "Specific country list found which does not include Ethiopia",
                scopes |-> specific_countries_found]
        ELSE IF acceptable_general_scopes # <<>>
          THEN [relevant |-> TRUE, reason |-> "Includes a relevant general scope",
                scopes |-> acceptable_general_scopes]
        ELSE [relevant |-> FALSE, reason |-> "No relevant geographic scope found",
              scopes |-> eligible]

\* The locations compared as the classifier wrote them, without lower().strip().
is_relevant_without_normalising(geo) ==
    LET eligible == geo.eligible.v
        excluded == geo.excluded.v
        specific_countries_found == SelectSeq(eligible, NotInGeneralScopes)
        acceptable_general_scopes == SelectSeq(eligible, InGeneralScopes)
    IN  IF "ethiopia" \in Range(excluded)
          THEN [relevant |-> FALSE, reason |-> "Explicitly excludes Ethiopia", scopes |-> <<>>]
        ELSE IF "ethiopia" \in Range(eligible)
          THEN [relevant |-> TRUE, reason |-> "Explicitly includes Ethiopia", scopes |-> <<>>]
        ELSE IF specific_countries_found # <<>>
          THEN [relevant |-> FALSE,
                reason |-> "Specific country list found which does not include Ethiopia",
                scopes |-> specific_countries_found]
        ELSE IF acceptable_general_scopes # <<>>
          THEN [relevant |-> TRUE, reason |-> "Includes a relevant general scope",
                scopes |-> acceptable_general_scopes]
        ELSE [relevant |-> FALSE, reason |-> "No relevant geographic scope found",
              scopes |-> eligible]

\* Variants of the rule: a broad scope accepted before the specific
\* locations are looked at ("GeneralScopeFirst"), an eligible list without
\* any recognised location accepted ("DefaultRelevant").
is_relevant_variant(geo, variant) ==
    LET eligible == LowerStripAll(geo.eligible.v)
        excluded == LowerStripAll(geo.excluded.v)
        specific_countries_found == SelectSeq(eligible, NotInGeneralScopes)
        acceptable_general_scopes == SelectSeq(eligible, InGeneralScopes)
    IN  IF "ethiopia" \in Range(excluded)
          THEN [relevant |-> FALSE, reason |-> "Explicitly excludes Ethiopia", scopes |-> <<>>]
        ELSE IF "ethiopia" \in Range(eligible)
          THEN [relevant |-> TRUE, reason |-> "Explicitly includes Ethiopia", scopes |-> <<>>]
        ELSE IF variant = "GeneralScopeFirst" /\ acceptable_general_scopes # <<>>
          THEN [relevant |-> TRUE, reason |-> "Includes a relevant general scope",
                scopes |-> acceptable_general_scopes]
        ELSE IF specific_countries_found # <<>>
          THEN [relevant |-> FALSE,
                reason |-> "Specific country list found which does not include Ethiopia",
                scopes |-> specific_countries_found]
        ELSE IF acceptable_general_scopes # <<>>
          THEN [relevant |-> TRUE, reason |-> "Includes a relevant general scope",
                scopes |-> acceptable_general_scopes]
        ELSE [relevant |-> (variant = "DefaultRelevant"),
              reason |-> "No relevant geographic scope found", scopes |-> eligible]

is_relevant_general_scope_first(geo) == is_relevant_variant(geo, "GeneralScopeFirst")
is_relevant_by_default(geo) == is_relevant_variant(geo, "DefaultRelevant")

is_relevant_for_ethiopia(geo_data) ==
    LET eligible == LowerStripAll(geo_data.eligible.v)
        excluded == LowerStripAll(geo_data.excluded.v)
        specific_countries_found == SelectSeq(eligible, NotInGeneralScopes)
        acceptable_general_scopes == SelectSeq(eligible, InGeneralScopes)
    IN  IF "ethiopia" \in Range(excluded)
          THEN [relevant |-> FALSE, reason |-> "Explicitly excludes Ethiopia", scopes |-> <<>>]
        ELSE IF "ethiopia" \in Range(eligible)
          THEN [relevant |-> TRUE, reason |-> "Explicitly includes Ethiopia", scopes |-> <<>>]
        ELSE IF specific_countries_found # <<>>
          THEN [relevant |-> FALSE,
                reason |-> "Specific country list found which does not include Ethiopia",
                scopes |-> specific_countries_found]
        ELSE IF acceptable_general_scopes # <<>>
          THEN [relevant |-> TRUE, reason |-> "Includes a relevant general scope",
                scopes |-> acceptable_general_scopes]
        ELSE [relevant |-> FALSE, reason |-> "No relevant geographic scope found",
              scopes |-> eligible]

(***************************************************************************)
(* Deadlines.                                                              *)
(***************************************************************************)
\* any(keyword in deadline_str.lower() for keyword in [...]) on the vocabulary
HasNonDateKeyword(s) ==
    s \in {"Rolling", "Ongoing", "Not Specified", "Quarterly", "N/A"}

\* dateutil's parse on the vocabulary: a date as YYYYMMDD, or 0 for ValueError
parse_date(s) ==
    CASE s = "2024-01-01" -> 20240101
      [] s = "January 1, 2024" -> 20240101
      [] s = "2025-01-01" -> 20250101
      [] s = "2099-12-31" -> 20991231
      [] OTHER -> 0

\* strftime('%Y-%m-%d')
strftime(d) ==
    CASE d = 20240101 -> "2024-01-01"
      [] d = 20250101 -> "2025-01-01"
      [] d = 20991231 -> "2099-12-31"

\* datetime.strptime(s, '%Y-%m-%d').date()
strptime(s) ==
    CASE s = "2024-01-01" -> 20240101
      [] s = "2025-01-01" -> 20250101
      [] s = "2099-12-31" -> 20991231

\* The result is a JSON value: Str(iso date) or Null (Python's None).
validate_and_clean_deadline(deadline) ==
    IF deadline.t # "str" \/ deadline.v = "" THEN Null
    ELSE IF HasNonDateKeyword(deadline.v) THEN Null
    ELSE IF parse_date(deadline.v) = 0 THEN Null
    ELSE Str(strftime(parse_date(deadline.v)))

(***************************************************************************)
(* What _call_gemini_with_retry returns: None after the retry budget, or   *)
(* the response text.  A text is modelled by what the adapters look at:    *)
(* whether re.search(r'\{.*\}') finds an object, whether json.loads        *)
(* decodes it, and the decoded object.                                     *)
(***************************************************************************)
Unset == [kind |-> "unset"]
NoneResponse == [kind |-> "None"]
\* No call was made: without an API key the adapters return at once.
NotCalled == [kind |-> "not_called"]
NoJsonText == [kind |-> "text", body |-> "nojson"]
MalformedText == [kind |-> "text", body |-> "malformed"]
JsonText(obj) == [kind |-> "text", body |-> "json", data |-> obj]
Missing == [t |-> "missing"]

\* dict.get(key, default) on a decoded field
Get(field, default) == IF field = Missing THEN default ELSE field

EmptyGeo == [eligible |-> List(<<>>), excluded |-> List(<<>>)]

\* Geographic-scope responses the classifier is explored with.
GeoTexts ==
    { NoJsonText, MalformedText,
      JsonText([eligible |-> Missing, excluded |-> List(<<>>)]),
      JsonText([eligible |-> List(<<"East Africa">>), excluded |-> List(<<"Somalia">>)]),
      JsonText([eligible |-> List(<<"Nigeria">>), excluded |-> List(<<>>)]),
      JsonText([eligible |-> Null, excluded |-> List(<<>>)]) }

\* `if response_text:` is false for None and for an empty text.
IsFalsy(response_text) ==
    response_text.kind = "None" \/ response_text.body = "empty"

get_geographic_scope(model, response_text) ==
    IF model = "None" THEN EmptyGeo
    ELSE IF IsFalsy(response_text) THEN EmptyGeo
    ELSE IF response_text.body = "nojson" THEN EmptyGeo
    ELSE IF response_text.body = "malformed" THEN EmptyGeo
    ELSE IF response_text.data.eligible = Missing \/ response_text.data.excluded = Missing
      THEN EmptyGeo
    ELSE response_text.data

EnrichmentError(summary) ==
    [focus_areas |-> List(<<>>), summary |-> Str(summary), funding_amount |-> Str("Error"),
     funder |-> Str("Error"), deadline |-> Str("Error")]

Enrichment(summary, funding, deadline, focus_areas) ==
    [focus_areas |-> focus_areas, summary |-> summary, funding_amount |-> funding,
     funder |-> Str("USAID"), deadline |-> deadline]

\* Enrichment responses the classifier is explored with.
EnrichmentTexts ==
    { NoJsonText, MalformedText,
      JsonText(Enrichment(Str("Grants for NGOs."), Str("$10,000"), Str("2024-01-01"),
                          List(<<"Health">>))),
      JsonText(Enrichment(Str("Grants for NGOs."), Str("$10,000"), Str("2025-01-01"),
                          List(<<"Health">>))),
      JsonText(Enrichment(Str("Grants for NGOs."), Str("$10,000"), Str("Rolling"),
                          List(<<"Health", "Education", "Research", "Human Rights">>))),
      JsonText(Enrichment(Str("Grants for NGOs."), Str("Error"), Str("2024-01-01"),
                          List(<<"Health">>))),
      JsonText(Enrichment(Str("Grants for NGOs."), Str("$10,000"), Str("2025-01-01"),
                          Null)) }

\* Enrichment responses: complete objects with a past deadline and with
\* today's, and an object without the summary, funding_amount and funder keys
\* whose deadline text is no date.
SchemaTexts ==
    { JsonText(Enrichment(Str("Grants for NGOs."), Str("$10,000"), Str("2024-01-01"),
                          List(<<"Health">>))),
      JsonText(Enrichment(Str("Grants for NGOs."), Str("$10,000"), Str("2025-01-01"),
                          List(<<"Health">>))),
      JsonText([focus_areas |-> List(<<"Health">>), summary |-> Missing,
                funding_amount |-> Missing, funder |-> Missing,
                deadline |-> Str("To be announced")]) }

\* len(analysis_result.get("focus_areas", [])) raises TypeError on a null
EnrichmentDataRaises(response_text) ==
    /\ response_text.kind = "text"
    /\ response_text.body = "json"
    /\ response_text.data.focus_areas.t \notin {"list", "str", "missing"}

\* The slice taken from the end of the list.
LastThree(s) == IF Len(s) > 3 THEN SubSeq(s, Len(s) - 2, Len(s)) ELSE s

FirstThree(s) == IF Len(s) > 3 THEN SubSeq(s, 1, 3) ELSE s

get_enrichment_data(response_text) ==
    IF IsFalsy(response_text) THEN EnrichmentError("AI call failed after retries.")
    ELSE IF response_text.body = "nojson" THEN EnrichmentError("No JSON object in AI response.")
    ELSE IF response_text.body = "malformed" THEN EnrichmentError("AI returned malformed JSON.")
    ELSE IF response_text.data.focus_areas.t = "list"
      THEN [response_text.data EXCEPT !.focus_areas = List(FirstThree(@.v))]
    ELSE response_text.data

(***************************************************************************)
(* analyze_opportunity: the decisions between the classifier calls.        *)
(***************************************************************************)
StatusUpdate(link, status) == [link |-> link, status |-> status]

\* What a future holds: an exception, or the returned tuple
\* (is_relevant, status_update); status_update is <<>> for None.
Raised == [state |-> "exception"]
Returned(is_relevant, status_update) ==
    [state |-> "result", is_relevant |-> is_relevant, status_update |-> status_update]

\* The enrichment call issued whatever the geography rule says.
GeoVerdictAlwaysEnrich(geo_data) ==
    IF GeoRaises(geo_data) THEN "raise" ELSE "enrich"

\* Lines 194-201: "raise", "irrelevant", or "enrich" (proceed to enrichment).
GeoVerdict(geo_data) ==
    IF GeoRaises(geo_data) THEN "raise"
    ELSE IF ~is_relevant_for_ethiopia(geo_data).relevant THEN "irrelevant"
    ELSE "enrich"

\* Variants of the decision: the failure sentinel not told apart from an error
\* ("ErrorForFailure"), the deadline never compared with today ("NoExpiry"),
\* malformed output retried like a failed call ("RetryForError").
EnrichmentVerdictVariant(enrichment_data, variant) ==
    LET summary == Get(enrichment_data.summary, Str(""))
        funding == Get(enrichment_data.funding_amount, Str(""))
        raw_deadline_text == Get(enrichment_data.deadline, Null)
        parsed_deadline_str == validate_and_clean_deadline(raw_deadline_text)
        focus_areas == Get(enrichment_data.focus_areas, List(<<>>))
    IN  IF summary.t \notin {"str", "list"} THEN "raise"
        ELSE IF summary.t = "str" /\ Contains(summary.v, "AI call failed")
          THEN (IF variant = "ErrorForFailure" THEN "ai_error" ELSE "retry")
        ELSE IF \/ funding = Str("Error")
                \/ summary.t = "str" /\ Contains(summary.v, "malformed JSON")
                \/ summary.t = "str" /\ Contains(summary.v, "No JSON object")
          THEN (IF variant = "RetryForError" THEN "retry" ELSE "ai_error")
        ELSE IF /\ variant # "NoExpiry"
                /\ parsed_deadline_str # Null
                /\ strptime(parsed_deadline_str.v) < today
          THEN "expired"
        ELSE IF focus_areas.t \notin {"list", "str"} THEN "raise"
        ELSE "relevant"

EnrichmentVerdictErrorForFailure(enrichment_data) ==
    EnrichmentVerdictVariant(enrichment_data, "ErrorForFailure")
EnrichmentVerdictNoExpiry(enrichment_data) ==
    EnrichmentVerdictVariant(enrichment_data, "NoExpiry")
EnrichmentVerdictRetryForError(enrichment_data) ==
    EnrichmentVerdictVariant(enrichment_data, "RetryForError")

\* The verdict that discards a deadline equal to today as well.
EnrichmentVerdictTodayExpired(enrichment_data) ==
    LET parsed_deadline_str ==
            validate_and_clean_deadline(Get(enrichment_data.deadline, Null))
    IN  IF /\ EnrichmentVerdictVariant(enrichment_data, "NoExpiry") = "relevant"
           /\ parsed_deadline_str # Null
           /\ strptime(parsed_deadline_str.v) <= today
        THEN "expired"
        ELSE EnrichmentVerdictVariant(enrichment_data, "")

\* Lines 204-240 on the value get_enrichment_data returned.
EnrichmentVerdict(enrichment_data) ==
    LET summary == Get(enrichment_data.summary, Str(""))
        funding == Get(enrichment_data.funding_amount, Str(""))
        raw_deadline_text == Get(enrichment_data.deadline, Null)
        parsed_deadline_str == validate_and_clean_deadline(raw_deadline_text)
        focus_areas == Get(enrichment_data.focus_areas, List(<<>>))
    IN  IF summary.t \notin {"str", "list"} THEN "raise"
        ELSE IF summary.t = "str" /\ Contains(summary.v, "AI call failed") THEN "retry"
        ELSE IF \/ funding = Str("Error")
                \/ summary.t = "str" /\ Contains(summary.v, "malformed JSON")
                \/ summary.t = "str" /\ Contains(summary.v, "No JSON object")
          THEN "ai_error"
        ELSE IF parsed_deadline_str # Null /\ strptime(parsed_deadline_str.v) < today
          THEN "expired"
        ELSE IF focus_areas.t \notin {"list", "str"} THEN "raise"
        ELSE "relevant"

\* An accepted item returned without its status update.
ResultOfAcceptedWithoutUpdate(link, verdict) ==
    CASE verdict = "raise" -> Raised
      [] verdict = "irrelevant" -> Returned("False", <<StatusUpdate(link, "processed_irrelevant")>>)
      [] verdict = "retry" -> Returned("None", <<>>)
      [] verdict = "ai_error" -> Returned("False", <<StatusUpdate(link, "processed_ai_error")>>)
      [] verdict = "expired" -> Returned("False", <<StatusUpdate(link, "processed_expired")>>)
      [] verdict = "relevant" -> Returned("True", <<>>)

\* The tuple analyze_opportunity returns for a verdict.
ResultOf(link, verdict) ==
    CASE verdict = "raise" -> Raised
      [] verdict = "irrelevant" -> Returned("False", <<StatusUpdate(link, "processed_irrelevant")>>)
      [] verdict = "retry" -> Returned("None", <<>>)
      [] verdict = "ai_error" -> Returned("False", <<StatusUpdate(link, "processed_ai_error")>>)
      [] verdict = "expired" -> Returned("False", <<StatusUpdate(link, "processed_expired")>>)
      [] verdict = "relevant" -> Returned("True", <<StatusUpdate(link, "processed_relevant")>>)

\* ", ".join(list)
RECURSIVE Join(_)
Join(s) ==
    IF s = <<>> THEN ""
    ELSE IF Len(s) = 1 THEN s[1]
    ELSE s[1] \o ", " \o Join(Tail(s))

\* The record with the cleaned deadline stored as the raw deadline text too.
final_record_cleaned_raw_text(link, source, geo_data, enrichment_data) ==
    [link |-> link,
     source |-> source,
     geographic_scope |-> Join(Get(geo_data.eligible, List(<<>>)).v),
     funding_amount |-> Get(enrichment_data.funding_amount, Null),
     funder |-> Get(enrichment_data.funder, Null),
     deadline |-> validate_and_clean_deadline(Get(enrichment_data.deadline, Null)),
     raw_deadline_text |-> validate_and_clean_deadline(Get(enrichment_data.deadline, Null)),
     focus_areas |-> Join(Get(enrichment_data.focus_areas, List(<<>>)).v),
     summary |-> Get(enrichment_data.summary, Null)]

\* Lines 223-234: the record of an accepted item (without its title).
final_record(link, source, geo_data, enrichment_data) ==
    [link |-> link,
     source |-> source,
     geographic_scope |-> Join(Get(geo_data.eligible, List(<<>>)).v),
     funding_amount |-> Get(enrichment_data.funding_amount, Null),
     funder |-> Get(enrichment_data.funder, Null),
     deadline |-> validate_and_clean_deadline(Get(enrichment_data.deadline, Null)),
     raw_deadline_text |-> Get(enrichment_data.deadline, Null),
     focus_areas |-> Join(Get(enrichment_data.focus_areas, List(<<>>)).v),
     summary |-> Get(enrichment_data.summary, Null)]

(***************************************************************************)
(* The stores.                                                             *)
(***************************************************************************)
\* The query selecting the records with an analysis error as well.
RECURSIVE PendingOrErrorFrom(_, _)
PendingOrErrorFrom(raw, l) ==
    IF l > NumLinks THEN <<>>
    ELSE IF raw[l] \in {"pending_analysis", "processed_ai_error"}
      THEN <<l>> \o PendingOrErrorFrom(raw, l + 1)
    ELSE PendingOrErrorFrom(raw, l + 1)

\* select('*').eq('status', 'pending_analysis'): the pending links, in key order
RECURSIVE PendingFrom(_, _)
PendingFrom(raw, l) ==
    IF l > NumLinks THEN <<>>
    ELSE IF raw[l] = "pending_analysis" THEN <<l>> \o PendingFrom(raw, l + 1)
    ELSE PendingFrom(raw, l + 1)

\* The status filter left out of the query: every record is read as pending.
RECURSIVE AllFrom(_)
AllFrom(l) == IF l > NumLinks THEN <<>> ELSE <<l>> \o AllFrom(l + 1)
get_all_opportunities(raw, ok) == IF ok THEN AllFrom(1) ELSE <<>>

get_pending_opportunities(raw, ok) == IF ok THEN PendingFrom(raw, 1) ELSE <<>>

\* The bulk_update_raw_status stored procedure: every listed link gets its status.
RECURSIVE ApplyUpdates(_, _)
ApplyUpdates(raw, updates) ==
    IF updates = <<>> THEN raw
    ELSE ApplyUpdates([raw EXCEPT ![Head(updates).link] = Head(updates).status], Tail(updates))

\* bulk_update_raw_opportunity_statuses: on an error of the call nothing changes.
bulk_update_raw_opportunity_statuses(raw, updates, ok) ==
    IF ok /\ updates # <<>> THEN ApplyUpdates(raw, updates) ELSE raw

\* add_processed_opportunity: upsert of the row; an error is logged and swallowed.
add_processed_opportunity(processed, link, ok) ==
    IF ok THEN processed \cup {link} ELSE processed

\* The source names the three fetch adapters put into their records.
scraper_functions == {"scrape_gso", "scrape_ofy", "scrape_od"}
SourceOf(f) ==
    CASE f = "scrape_gso" -> "Global South Opportunities"
      [] f = "scrape_ofy" -> "Opportunities For Youth"
      [] f = "scrape_od" -> "Opportunity Desk"

\* The stored links, in key order: a record with status "absent" is a link
\* the raw store has no row for.
RECURSIVE StoredFrom(_, _)
StoredFrom(raw, l) ==
    IF l > NumLinks THEN <<>>
    ELSE IF raw[l] # "absent" THEN <<l>> \o StoredFrom(raw, l + 1)
    ELSE StoredFrom(raw, l + 1)

\* The number of non-empty pages the paginated scan of the raw store has.
NumPages(raw) == (Len(StoredFrom(raw, 1)) + page_size - 1) \div page_size

\* get_all_scraped_links: the links of the pages read before the scan ended.
\* A scan that reads every page returns every stored link; an error on a
\* page is swallowed and the links gathered so far are returned (none without
\* a client).
get_all_scraped_links(raw, pages_read) ==
    LET stored == StoredFrom(raw, 1)
        n == IF pages_read * page_size < Len(stored)
               THEN pages_read * page_size ELSE Len(stored)
    IN  {stored[i] : i \in 1..n}

\* upsert(opportunities) with the client's defaults (duplicates are merged on
\* the key): a new link is inserted with the column default of status; for a
\* stored link the columns of the payload (title, source, full_text) are
\* overwritten and status, which is not in the payload, is kept.
RECURSIVE UpsertStatus(_, _)
UpsertStatus(raw, opportunities) ==
    IF opportunities = <<>> THEN raw
    ELSE LET opp == Head(opportunities)
         IN  UpsertStatus(
                 IF raw[opp.link] = "absent"
                   THEN [raw EXCEPT ![opp.link] = "pending_analysis"] ELSE raw,
                 Tail(opportunities))

RECURSIVE UpsertSource(_, _)
UpsertSource(source, opportunities) ==
    IF opportunities = <<>> THEN source
    ELSE UpsertSource([source EXCEPT ![Head(opportunities).link] = Head(opportunities).source],
                      Tail(opportunities))

\* add_raw_opportunities: on an error of the call nothing changes.
add_raw_opportunities(raw, opportunities, ok) ==
    IF ok /\ opportunities # <<>> THEN UpsertStatus(raw, opportunities) ELSE raw
add_raw_opportunities_source(source, opportunities, ok) ==
    IF ok /\ opportunities # <<>> THEN UpsertSource(source, opportunities) ELSE source

\* The rows of the processed store: NoRow for a link without one, else the
\* columns of the upserted record and processed_at, the day of the insert.
NoRow == [link |-> 0]

\* upsert of a record, keyed by link: a new row gets processed_at from the
\* column default; for a stored row the columns of the payload are
\* overwritten and processed_at, which is not in the payload, is kept.
add_processed_row(rows, record, now, ok) ==
    IF ~ok THEN rows
    ELSE [rows EXCEPT ![record.link] =
            [processed_at |-> IF @ = NoRow THEN now ELSE @.processed_at] @@ record]

(***************************************************************************)
(* State.                                                                  *)
(***************************************************************************)
VARIABLES
    raw_opportunities,         \* raw store: link -> status
    processed_opportunities,   \* processed store: the links that have a row
    processed_rows,            \* processed store: link -> its row
    ai_model,                  \* "configured", or "None" without an API key
    enrichment_answers,        \* the texts the enrichment call may return
    stage,                     \* run_processor_stage: "idle", "analysing", "finished"
    run,                       \* number of processor runs started
    opportunities_to_process,  \* the pending list read at the start of the run
    work_queue,                \* the executor's queue of submitted, unstarted items
    pc,                        \* per item: where its analyze_opportunity call is
    attempt,                   \* per item: loop index i of _call_gemini_with_retry
    geo_response,              \* per item: what the geographic-scope call returned
    enrichment_response,       \* per item: what the enrichment call returned
    future,                    \* per item: the outcome its future holds
    ai_semaphore,              \* free permits of the admission gate
    status_updates_to_commit,  \* the batch accumulated by the as_completed loop
    bulk_update_calls,         \* the lists passed to the bulk status update, this run
    bulk_update_result,        \* "none", "ok" or "failed": how the bulk call ended
    upsert_calls,              \* per item: add_processed_opportunity calls, this run
    upserted,                  \* links whose row was written in this run
    raw_source,                \* raw store: link -> source of the stored record
    collector_stage,           \* run_collector_stage: "idle", "scraping", "finished"
    collector_run,             \* number of collector runs started
    existing_links,            \* the known-link set read at the start of the run
    scrapers_done,             \* the fetch adapters taken from as_completed
    scrapers_failed,           \* those of them whose future held an exception
    all_new_raw_opportunities, \* the candidates, in completion order
    insert_calls,              \* the lists passed to add_raw_opportunities, this run
    geo_input,                 \* the geographic-scope result given to the geography rule
    relevance,                 \* what is_relevant_for_ethiopia returned for it
    retry_pc,                  \* _call_gemini_with_retry: "idle", "calling", "returned"
    retry_i,                   \* its loop index i
    delay,                     \* its local delay
    waits,                     \* the failures so far, each with the time slept after it
    retry_result,              \* what it returned
    maintenance_stage,         \* run_maintenance_stage: "idle", "expired", "stale", "finished"
    maintenance_run,           \* number of maintenance runs started
    clock,                     \* datetime.now(timezone.utc), to the day, as YYYYMMDD
    today_utc,                 \* the date the last expired-deadline pass compared with
    cutoff_date,               \* the cutoff the last stale pass compared with
    expired_result,            \* "none", "ok" or "failed": how the last expired pass ended
    stale_result,              \* "none", "ok" or "failed": how the last stale pass ended
    response_segments,         \* a response text given to the geographic-scope adapter
    extracted                  \* what the adapter returned for it

vars == <<raw_opportunities, processed_opportunities, processed_rows, ai_model, enrichment_answers, stage, run,
          opportunities_to_process, work_queue, pc, attempt, geo_response,
          enrichment_response, future, ai_semaphore, status_updates_to_commit,
          bulk_update_calls, bulk_update_result, upsert_calls, upserted,
          raw_source, collector_stage, collector_run, existing_links, scrapers_done, scrapers_failed,
          all_new_raw_opportunities, insert_calls, geo_input, relevance,
          retry_pc, retry_i, delay, waits, retry_result,
          maintenance_stage, maintenance_run, clock, today_utc, cutoff_date,
          expired_result, stale_result, response_segments, extracted>>

\* A response text followed through the extraction of its JSON object.
extraction_vars == <<response_segments, extracted>>

\* The position and the locals of run_maintenance_stage, and the clock.
maintenance_vars == <<maintenance_stage, maintenance_run, clock, today_utc, cutoff_date,
                      expired_result, stale_result>>

\* The locals of one call of _call_gemini_with_retry.
retry_vars == <<retry_pc, retry_i, delay, waits, retry_result>>

\* The argument and the result of one evaluation of the geography rule.
relevance_vars == <<geo_input, relevance>>

\* What run_collector_stage reads and writes, next to the raw store's statuses.
collector_vars == <<raw_source, collector_stage, collector_run, existing_links,
                    scrapers_done, scrapers_failed, all_new_raw_opportunities, insert_calls>>

store_vars == <<raw_opportunities, processed_opportunities, processed_rows>>
call_log_vars == <<bulk_update_calls, bulk_update_result, upsert_calls, upserted>>

NoFuture == [state |-> "pending"]

\* No processor run has started.
ProcessorIdle ==
    /\ stage = "idle"
    /\ run = 0
    /\ opportunities_to_process = <<>>
    /\ work_queue = <<>>
    /\ pc = [l \in Links |-> "none"]
    /\ attempt = [l \in Links |-> 0]
    /\ geo_response = [l \in Links |-> Unset]
    /\ enrichment_response = [l \in Links |-> Unset]
    /\ future = [l \in Links |-> NoFuture]
    /\ ai_semaphore = MAX_CONCURRENT_AI_CALLS
    /\ status_updates_to_commit = <<>>
    /\ bulk_update_calls = <<>>
    /\ bulk_update_result = "none"
    /\ upsert_calls = [l \in Links |-> 0]
    /\ upserted = {}

\* No collector run has started.
CollectorIdle ==
    /\ collector_stage = "idle"
    /\ collector_run = 0
    /\ existing_links = {}
    /\ scrapers_done = {}
    /\ scrapers_failed = {}
    /\ all_new_raw_opportunities = <<>>
    /\ insert_calls = <<>>

\* The geography rule has not been evaluated.
NotEvaluated == [state |-> "not_evaluated"]
RelevanceIdle ==
    /\ geo_input = EmptyGeo
    /\ relevance = NotEvaluated

\* The retry helper is not being followed on its own.
RetryIdle ==
    /\ retry_pc = "idle"
    /\ retry_i = 0
    /\ delay = base_delay
    /\ waits = <<>>
    /\ retry_result = Unset

\* How a deletion pass ended: not run yet, an error that was logged, or the
\* count of deleted rows in the response.
NoResult == [state |-> "none"]
CallFailed == [state |-> "failed"]
Deleted(count) == [state |-> "ok", count |-> count]

\* No response text is being followed through the extraction.
NotExtracted == [state |-> "not_extracted"]
ExtractionIdle ==
    /\ response_segments = <<>>
    /\ extracted = NotExtracted

\* The maintenance stage has not run; the clock reads `today`.
MaintenanceIdle ==
    /\ maintenance_stage = "idle"
    /\ maintenance_run = 0
    /\ clock = today
    /\ today_utc = 0
    /\ cutoff_date = 0
    /\ expired_result = NoResult
    /\ stale_result = NoResult

\* The processor stage is explored from a raw store in which an earlier
\* collector stage has stored every link as pending.
Init ==
    /\ raw_opportunities = [l \in Links |-> "pending_analysis"]
    /\ raw_source = [l \in Links |-> "Global South Opportunities"]
    /\ processed_opportunities = {}
    /\ processed_rows = [l \in Links |-> NoRow]
    /\ ai_model \in {"configured", "None"}
    /\ enrichment_answers = EnrichmentTexts
    /\ ProcessorIdle
    /\ CollectorIdle
    /\ RelevanceIdle
    /\ RetryIdle
    /\ MaintenanceIdle
    /\ ExtractionIdle

(***************************************************************************)
(* run_processor_stage, lines 130-150: read the pending list; return when  *)
(* it is empty, else create the gate and the pool and submit every item.   *)
(***************************************************************************)
SubmitPending ==
    /\ stage \in {"idle", "finished"}
    /\ \E ok \in BOOLEAN :
         LET pending == get_pending_opportunities(raw_opportunities, ok)
         IN  /\ opportunities_to_process' = pending
             /\ work_queue' = pending
             /\ stage' = IF pending = <<>> THEN "finished" ELSE "analysing"
             /\ pc' = [l \in Links |-> IF l \in Range(pending) THEN "queued" ELSE "none"]
    /\ attempt' = [l \in Links |-> 0]
    /\ geo_response' = [l \in Links |-> Unset]
    /\ enrichment_response' = [l \in Links |-> Unset]
    /\ future' = [l \in Links |-> NoFuture]
    /\ ai_semaphore' = MAX_CONCURRENT_AI_CALLS
    /\ status_updates_to_commit' = <<>>
    /\ bulk_update_calls' = <<>>
    /\ bulk_update_result' = "none"
    /\ upsert_calls' = [l \in Links |-> 0]
    /\ upserted' = {}
    /\ UNCHANGED <<store_vars, ai_model, enrichment_answers>>

\* One more of the runs that are counted.
ReadPendingAndSubmit ==
    /\ run < MaxRuns
    /\ run' = run + 1
    /\ SubmitPending

\* run_processor_stage is called.
StartRun ==
    /\ ReadPendingAndSubmit
    /\ UNCHANGED <<retry_vars, maintenance_vars, extraction_vars, collector_vars, relevance_vars>>

\* The items a pool thread is running.
Running == {l \in Links : pc[l] \in {"acquire", "geo", "enrich"}}

\* ThreadPoolExecutor(max_workers=...): a free thread takes the oldest queued item.
Dequeue(l) ==
    /\ stage = "analysing"
    /\ work_queue # <<>>
    /\ Head(work_queue) = l
    /\ Cardinality(Running) < MAX_CONCURRENT_AI_CALLS
    /\ work_queue' = Tail(work_queue)
    /\ pc' = [pc EXCEPT ![l] = "acquire"]
    /\ UNCHANGED <<store_vars, ai_model, enrichment_answers, retry_vars, maintenance_vars, extraction_vars, collector_vars, relevance_vars, stage, run, opportunities_to_process, attempt,
                   geo_response, enrichment_response, future, ai_semaphore,
                   status_updates_to_commit, call_log_vars>>

\* The gate entered without taking a permit.
AcquireWithoutPermit(l) ==
    /\ pc[l] = "acquire"
    /\ pc' = [pc EXCEPT ![l] = "geo"]
    /\ attempt' = [attempt EXCEPT ![l] = 0]
    /\ UNCHANGED <<store_vars, ai_model, enrichment_answers, retry_vars, maintenance_vars, extraction_vars, collector_vars, relevance_vars, stage, run, opportunities_to_process, work_queue,
                   geo_response, enrichment_response, future, ai_semaphore,
                   status_updates_to_commit, call_log_vars>>

\* `with semaphore:` blocks until a permit is free, then calls get_geographic_scope.
Acquire(l) ==
    /\ pc[l] = "acquire"
    /\ ai_semaphore > 0
    /\ ai_semaphore' = ai_semaphore - 1
    /\ pc' = [pc EXCEPT ![l] = "geo"]
    /\ attempt' = [attempt EXCEPT ![l] = 0]
    /\ UNCHANGED <<store_vars, ai_model, enrichment_answers, retry_vars, maintenance_vars, extraction_vars, collector_vars, relevance_vars, stage, run, opportunities_to_process, work_queue,
                   geo_response, enrichment_response, future,
                   status_updates_to_commit, call_log_vars>>

\* The status update appended under `if is_relevant:` instead of `if status_update:`.
CollectOnlyRelevant(outcome) ==
    status_updates_to_commit' =
        IF outcome.state = "result" /\ outcome.is_relevant = "True"
          THEN status_updates_to_commit \o outcome.status_update
          ELSE status_updates_to_commit

\* One iteration of the as_completed loop (lines 152-169), which takes the
\* futures in the order they complete: a status update that is not None joins
\* the batch; an exception raised by the worker is caught and logged.
Collect(outcome) ==
    status_updates_to_commit' =
        IF outcome.state = "result"
          THEN status_updates_to_commit \o outcome.status_update
          ELSE status_updates_to_commit

\* The block left by an exception without releasing the permit.
FinishKeepsPermitOnRaise(l, outcome) ==
    /\ ai_semaphore' = IF outcome.state = "result" THEN ai_semaphore + 1 ELSE ai_semaphore
    /\ future' = [future EXCEPT ![l] = outcome]
    /\ pc' = [pc EXCEPT ![l] = "done"]
    /\ attempt' = [attempt EXCEPT ![l] = 0]
    /\ Collect(outcome)

\* Leaving the `with semaphore:` block, by return or by exception: the permit
\* is released, the future gets its outcome and the loop of the controlling
\* thread takes it.  The loop touches only its local batch, so the step is
\* taken together with the completion.
Finish(l, outcome) ==
    /\ ai_semaphore' = ai_semaphore + 1
    /\ future' = [future EXCEPT ![l] = outcome]
    /\ pc' = [pc EXCEPT ![l] = "done"]
    /\ attempt' = [attempt EXCEPT ![l] = 0]
    /\ Collect(outcome)

\* get_geographic_scope has returned (lines 194-201).
GeoReturn(l, response_text) ==
    LET geo_data == get_geographic_scope(ai_model, response_text)
        verdict == GeoVerdict(geo_data)
    IN  /\ geo_response' = [geo_response EXCEPT ![l] = response_text]
        /\ IF verdict = "enrich"
             THEN /\ pc' = [pc EXCEPT ![l] = "enrich"]
                  /\ attempt' = [attempt EXCEPT ![l] = 0]
                  /\ UNCHANGED <<future, ai_semaphore, status_updates_to_commit>>
             ELSE Finish(l, ResultOf(l, verdict))
        /\ UNCHANGED <<store_vars, ai_model, enrichment_answers, retry_vars, maintenance_vars, extraction_vars, collector_vars, relevance_vars, stage, run, opportunities_to_process,
                       work_queue, enrichment_response, call_log_vars>>

\* _call_gemini_with_retry: the loop has another iteration after this one.
BudgetLeft(l) == attempt[l] + 1 < retries

\* One failed attempt of _call_gemini_with_retry with budget left: the
\* exception is caught, the helper sleeps and tries again.
RetryAgain(l) ==
    /\ attempt' = [attempt EXCEPT ![l] = attempt[l] + 1]
    /\ UNCHANGED <<store_vars, ai_model, enrichment_answers, retry_vars, maintenance_vars, extraction_vars, collector_vars, relevance_vars, stage, run, opportunities_to_process,
                   work_queue, pc, geo_response, enrichment_response, future,
                   ai_semaphore, status_updates_to_commit, call_log_vars>>

\* An attempt of the geographic-scope call fails; the last one makes the
\* helper return None.
GeoAttemptFails(l) ==
    /\ pc[l] = "geo"
    /\ ai_model = "configured"
    /\ IF BudgetLeft(l) THEN RetryAgain(l) ELSE GeoReturn(l, NoneResponse)

GeoAttemptSucceeds(l) ==
    /\ pc[l] = "geo"
    /\ ai_model = "configured"
    /\ \E response_text \in GeoTexts : GeoReturn(l, response_text)

\* Without an API key get_geographic_scope returns the empty result at once.
GeoNotConfigured(l) ==
    /\ pc[l] = "geo"
    /\ ai_model = "None"
    /\ GeoReturn(l, NotCalled)

\* get_enrichment_data has returned (lines 202-240).  It is reached only with
\* a relevant geographic scope, hence only with a configured model.  An
\* accepted item's row is written here, before the worker returns.
EnrichmentReturn(l, response_text) ==
    LET verdict == IF EnrichmentDataRaises(response_text) THEN "raise"
                   ELSE EnrichmentVerdict(get_enrichment_data(response_text))
    IN  /\ enrichment_response' = [enrichment_response EXCEPT ![l] = response_text]
        /\ IF verdict = "relevant"
             THEN \E ok \in BOOLEAN :
                    /\ processed_opportunities' =
                         add_processed_opportunity(processed_opportunities, l, ok)
                    /\ processed_rows' =
                         add_processed_row(
                             processed_rows,
                             final_record(l, raw_source[l],
                                          get_geographic_scope(ai_model, geo_response[l]),
                                          get_enrichment_data(response_text)),
                             today, ok)
                    /\ upsert_calls' = [upsert_calls EXCEPT ![l] = @ + 1]
                    /\ upserted' = IF ok THEN upserted \cup {l} ELSE upserted
             ELSE UNCHANGED <<processed_opportunities, processed_rows, upsert_calls, upserted>>
        /\ Finish(l, ResultOf(l, verdict))
        /\ UNCHANGED <<raw_opportunities, ai_model, enrichment_answers, retry_vars, maintenance_vars, extraction_vars, collector_vars, relevance_vars, stage, run, opportunities_to_process,
                       work_queue, geo_response, bulk_update_calls, bulk_update_result>>

EnrichmentAttemptFails(l) ==
    /\ pc[l] = "enrich"
    /\ IF BudgetLeft(l) THEN RetryAgain(l) ELSE EnrichmentReturn(l, NoneResponse)

EnrichmentAttemptSucceeds(l) ==
    /\ pc[l] = "enrich"
    /\ \E response_text \in enrichment_answers : EnrichmentReturn(l, response_text)

\* Every submitted item has been taken from as_completed.
AllCollected == \A l \in Links : pc[l] \in {"none", "done"}

\* The bulk update issued as soon as the batch holds something, inside the loop.
CommitWithoutWaiting ==
    /\ stage = "analysing"
    /\ status_updates_to_commit # <<>>
    /\ \E ok \in BOOLEAN :
         /\ raw_opportunities' =
              bulk_update_raw_opportunity_statuses(
                  raw_opportunities, status_updates_to_commit, ok)
         /\ bulk_update_calls' = Append(bulk_update_calls, status_updates_to_commit)
         /\ bulk_update_result' = IF ok THEN "ok" ELSE "failed"
    /\ stage' = IF AllCollected THEN "finished" ELSE stage
    /\ UNCHANGED <<processed_opportunities, processed_rows, ai_model, enrichment_answers, retry_vars, maintenance_vars, extraction_vars, collector_vars, relevance_vars, run, opportunities_to_process,
                   work_queue, pc, attempt, geo_response, enrichment_response, future,
                   ai_semaphore, status_updates_to_commit, upsert_calls, upserted>>

\* The worker's exception propagating out of the loop: the pool is shut down
\* and the run ends without its bulk update.
CommitUnlessRaised ==
    /\ stage = "analysing"
    /\ AllCollected
    /\ stage' = "finished"
    /\ IF status_updates_to_commit # <<>> /\ \A l \in Links : future[l] # Raised
         THEN \E ok \in BOOLEAN :
                /\ raw_opportunities' =
                     bulk_update_raw_opportunity_statuses(
                         raw_opportunities, status_updates_to_commit, ok)
                /\ bulk_update_calls' = Append(bulk_update_calls, status_updates_to_commit)
                /\ bulk_update_result' = IF ok THEN "ok" ELSE "failed"
         ELSE UNCHANGED <<raw_opportunities, bulk_update_calls, bulk_update_result>>
    /\ UNCHANGED <<processed_opportunities, processed_rows, ai_model, enrichment_answers, retry_vars, maintenance_vars, extraction_vars, collector_vars, relevance_vars, run, opportunities_to_process,
                   work_queue, pc, attempt, geo_response, enrichment_response, future,
                   ai_semaphore, status_updates_to_commit, upsert_calls, upserted>>

\* A failed bulk update issued a second time, which then succeeds.
CommitRetryingFailedUpdate ==
    /\ stage = "analysing"
    /\ AllCollected
    /\ stage' = "finished"
    /\ IF status_updates_to_commit # <<>>
         THEN \E ok \in BOOLEAN :
                /\ raw_opportunities' =
                     bulk_update_raw_opportunity_statuses(
                         raw_opportunities, status_updates_to_commit, TRUE)
                /\ bulk_update_calls' =
                     IF ok THEN Append(bulk_update_calls, status_updates_to_commit)
                     ELSE bulk_update_calls \o
                            <<status_updates_to_commit, status_updates_to_commit>>
                /\ bulk_update_result' = IF ok THEN "ok" ELSE "failed"
         ELSE UNCHANGED <<raw_opportunities, bulk_update_calls, bulk_update_result>>
    /\ UNCHANGED <<processed_opportunities, processed_rows, ai_model, enrichment_answers, retry_vars, maintenance_vars, extraction_vars, collector_vars, relevance_vars, run, opportunities_to_process,
                   work_queue, pc, attempt, geo_response, enrichment_response, future,
                   ai_semaphore, status_updates_to_commit, upsert_calls, upserted>>

\* The bulk update called without the `if status_updates_to_commit:` test.
CommitEmptyBatchToo ==
    /\ stage = "analysing"
    /\ AllCollected
    /\ stage' = "finished"
    /\ \E ok \in BOOLEAN :
         /\ raw_opportunities' =
              bulk_update_raw_opportunity_statuses(
                  raw_opportunities, status_updates_to_commit, ok)
         /\ bulk_update_calls' = Append(bulk_update_calls, status_updates_to_commit)
         /\ bulk_update_result' = IF ok THEN "ok" ELSE "failed"
    /\ UNCHANGED <<processed_opportunities, processed_rows, ai_model, enrichment_answers, retry_vars, maintenance_vars, extraction_vars, collector_vars, relevance_vars, run, opportunities_to_process,
                   work_queue, pc, attempt, geo_response, enrichment_response, future,
                   ai_semaphore, status_updates_to_commit, upsert_calls, upserted>>

\* Lines 171-177: after the pool is shut down, the single bulk update.
Commit ==
    /\ stage = "analysing"
    /\ AllCollected
    /\ stage' = "finished"
    /\ IF status_updates_to_commit # <<>>
         THEN \E ok \in BOOLEAN :
                /\ raw_opportunities' =
                     bulk_update_raw_opportunity_statuses(
                         raw_opportunities, status_updates_to_commit, ok)
                /\ bulk_update_calls' = Append(bulk_update_calls, status_updates_to_commit)
                /\ bulk_update_result' = IF ok THEN "ok" ELSE "failed"
         ELSE UNCHANGED <<raw_opportunities, bulk_update_calls, bulk_update_result>>
    /\ UNCHANGED <<processed_opportunities, processed_rows, ai_model, enrichment_answers, retry_vars, maintenance_vars, extraction_vars, collector_vars, relevance_vars, run, opportunities_to_process,
                   work_queue, pc, attempt, geo_response, enrichment_response, future,
                   ai_semaphore, status_updates_to_commit, upsert_calls, upserted>>

Next ==
    \/ StartRun
    \/ \E l \in Links : Dequeue(l)
    \/ \E l \in Links : Acquire(l)
    \/ \E l \in Links : GeoAttemptFails(l)
    \/ \E l \in Links : GeoAttemptSucceeds(l)
    \/ \E l \in Links : GeoNotConfigured(l)
    \/ \E l \in Links : EnrichmentAttemptFails(l)
    \/ \E l \in Links : EnrichmentAttemptSucceeds(l)
    \/ Commit

Spec == Init /\ [][Next]_vars

(***************************************************************************)
(* The processor stage with an enrichment classifier whose answers are     *)
(* JSON objects that lack keys of the schema.                              *)
(***************************************************************************)
SchemaInit ==
    /\ raw_opportunities = [l \in Links |-> "pending_analysis"]
    /\ raw_source = [l \in Links |-> "Global South Opportunities"]
    /\ processed_opportunities = {}
    /\ processed_rows = [l \in Links |-> NoRow]
    /\ ai_model \in {"configured", "None"}
    /\ enrichment_answers = SchemaTexts
    /\ ProcessorIdle
    /\ CollectorIdle
    /\ RelevanceIdle
    /\ RetryIdle
    /\ MaintenanceIdle
    /\ ExtractionIdle

SchemaSpec == SchemaInit /\ [][Next]_vars

(***************************************************************************)
(* The processor stage run again and again by the scheduler: the runs      *)
(* after the MaxRuns-th are not counted.  Weak fairness: a run that can go *)
(* on does go on (the pool's threads are scheduled, the calls return), and *)
(* the next run is started.                                                *)
(***************************************************************************)
StartRunAgain ==
    /\ run' = IF run < MaxRuns THEN run + 1 ELSE run
    /\ SubmitPending
    /\ UNCHANGED <<retry_vars, maintenance_vars, extraction_vars, collector_vars, relevance_vars>>

LiveNext ==
    \/ StartRunAgain
    \/ \E l \in Links : Dequeue(l)
    \/ \E l \in Links : Acquire(l)
    \/ \E l \in Links : GeoAttemptFails(l)
    \/ \E l \in Links : GeoAttemptSucceeds(l)
    \/ \E l \in Links : GeoNotConfigured(l)
    \/ \E l \in Links : EnrichmentAttemptFails(l)
    \/ \E l \in Links : EnrichmentAttemptSucceeds(l)
    \/ Commit

LiveSpec == Init /\ [][LiveNext]_vars /\ WF_vars(LiveNext)

(***************************************************************************)
(* run_collector_stage: the known-link read, the three fetch adapters run  *)
(* in a pool and taken as they complete, the reconciliation of their       *)
(* records by link and the bulk insert.                                    *)
(***************************************************************************)
processor_vars == <<processed_opportunities, processed_rows, ai_model, enrichment_answers, stage, run,
                    opportunities_to_process, work_queue, pc, attempt, geo_response,
                    enrichment_response, future, ai_semaphore, status_updates_to_commit,
                    bulk_update_calls, bulk_update_result, upsert_calls, upserted>>

\* utils.create_retry_session(retries, backoff_factor, status_forcelist,
\* session): the keyword arguments it accepts.
create_retry_session_parameters == {"retries", "backoff_factor", "status_forcelist", "session"}

\* The keyword arguments each adapter calls create_retry_session with, as the
\* first statement after its log line.
SessionKeywords(f) == IF f = "scrape_od" THEN {"use_proxy"} ELSE {}

\* The call raises TypeError for a keyword argument the function does not have.
SessionRaises(f) == ~(SessionKeywords(f) \subseteq create_retry_session_parameters)

\* The record a fetch adapter returns for a link: its link and what the
\* adapter scraped for it (title, source and full_text, told apart by source).
Opportunity(link, source) == [link |-> link, source |-> source]

\* The lists of recent links an adapter can find on its site.
SiteListings == UNION {[1..k -> Links] : k \in 0..MaxScraped}

\* The links to scrape taken without the test against the known links.
links_to_scrape_unfiltered(all_recent_links, known) == all_recent_links

\* [link for link in all_recent_links if link not in existing_links]
RECURSIVE links_to_scrape(_, _)
links_to_scrape(all_recent_links, known) ==
    IF all_recent_links = <<>> THEN <<>>
    ELSE IF Head(all_recent_links) \notin known
      THEN <<Head(all_recent_links)>> \o links_to_scrape(Tail(all_recent_links), known)
    ELSE links_to_scrape(Tail(all_recent_links), known)

\* scrape_gso, scrape_ofy, scrape_od: the details of every link to scrape, in
\* order.  A link whose detail page fails is skipped, which gives a list that
\* a shorter site listing gives as well.
scrape(f, all_recent_links, known) ==
    LET links == links_to_scrape(all_recent_links, known)
    IN  [i \in 1..Len(links) |-> Opportunity(links[i], SourceOf(f))]

\* The reconciliation keeping the last record of a link instead of the first.
RECURSIVE unique_opportunities_keep_last(_)
unique_opportunities_keep_last(opps) ==
    IF opps = <<>> THEN <<>>
    ELSE IF \E i \in 2..Len(opps) : opps[i].link = Head(opps).link
      THEN unique_opportunities_keep_last(Tail(opps))
    ELSE <<Head(opps)>> \o unique_opportunities_keep_last(Tail(opps))

\* Lines 103-109: the loop over the candidates with its seen_links set.
RECURSIVE unique_from(_, _, _)
unique_from(opps, seen_links, unique) ==
    IF opps = <<>> THEN unique
    ELSE IF Head(opps).link \notin seen_links
      THEN unique_from(Tail(opps), seen_links \cup {Head(opps).link}, Append(unique, Head(opps)))
    ELSE unique_from(Tail(opps), seen_links, unique)

unique_opportunities(opps) == unique_from(opps, {}, <<>>)

\* Line 88 and the start of the pool: the known links are read, by a scan
\* that reads every page or ends early on an error, and the adapters start.
StartCollector ==
    /\ collector_stage \in {"idle", "finished"}
    /\ collector_run < MaxRuns
    /\ \E pages_read \in 0..NumPages(raw_opportunities) :
         existing_links' = get_all_scraped_links(raw_opportunities, pages_read)
    /\ collector_stage' = "scraping"
    /\ collector_run' = collector_run + 1
    /\ scrapers_done' = {}
    /\ scrapers_failed' = {}
    /\ all_new_raw_opportunities' = <<>>
    /\ insert_calls' = <<>>
    /\ UNCHANGED <<raw_opportunities, raw_source, processor_vars, retry_vars, maintenance_vars, extraction_vars, relevance_vars>>

\* An adapter completes and the as_completed loop extends the candidates
\* with its records (lines 93-98).
ScraperReturns(f) ==
    /\ collector_stage = "scraping"
    /\ f \notin scrapers_done
    /\ ~SessionRaises(f)
    /\ scrapers_done' = scrapers_done \cup {f}
    /\ \E all_recent_links \in SiteListings :
         all_new_raw_opportunities' =
             all_new_raw_opportunities \o scrape(f, all_recent_links, existing_links)
    /\ UNCHANGED <<raw_opportunities, raw_source, processor_vars, retry_vars, maintenance_vars, extraction_vars, relevance_vars, collector_stage,
                   collector_run, existing_links, scrapers_failed, insert_calls>>

\* An adapter's exception discarding the candidates collected so far.
ScraperRaisesDropsCandidates(f) ==
    /\ collector_stage = "scraping"
    /\ f \notin scrapers_done
    /\ scrapers_done' = scrapers_done \cup {f}
    /\ scrapers_failed' = scrapers_failed \cup {f}
    /\ all_new_raw_opportunities' = <<>>
    /\ UNCHANGED <<raw_opportunities, raw_source, processor_vars, retry_vars, maintenance_vars, extraction_vars, relevance_vars, collector_stage,
                   collector_run, existing_links, insert_calls>>

\* An adapter raises: the exception is caught and logged (lines 99-100).
ScraperRaises(f) ==
    /\ collector_stage = "scraping"
    /\ f \notin scrapers_done
    /\ scrapers_done' = scrapers_done \cup {f}
    /\ scrapers_failed' = scrapers_failed \cup {f}
    /\ UNCHANGED <<raw_opportunities, raw_source, processor_vars, retry_vars, maintenance_vars, extraction_vars, relevance_vars, collector_stage,
                   collector_run, existing_links, all_new_raw_opportunities, insert_calls>>

\* The bulk insert called without the `if unique_opportunities:` test.
SaveNewAlways ==
    /\ collector_stage = "scraping"
    /\ scrapers_done = scraper_functions
    /\ collector_stage' = "finished"
    /\ LET unique == unique_opportunities(all_new_raw_opportunities)
       IN  \E ok \in BOOLEAN :
             /\ raw_opportunities' = add_raw_opportunities(raw_opportunities, unique, ok)
             /\ raw_source' = add_raw_opportunities_source(raw_source, unique, ok)
             /\ insert_calls' = Append(insert_calls, unique)
    /\ UNCHANGED <<processor_vars, retry_vars, maintenance_vars, extraction_vars, relevance_vars, collector_run, existing_links, scrapers_done, scrapers_failed,
                   all_new_raw_opportunities>>

\* Lines 103-117, after the pool: the candidates are reconciled by link and
\* the survivors, if any, go to the raw store in one bulk insert.
SaveNew ==
    /\ collector_stage = "scraping"
    /\ scrapers_done = scraper_functions
    /\ collector_stage' = "finished"
    /\ LET unique == unique_opportunities(all_new_raw_opportunities)
       IN  IF unique # <<>>
             THEN \E ok \in BOOLEAN :
                    /\ raw_opportunities' = add_raw_opportunities(raw_opportunities, unique, ok)
                    /\ raw_source' = add_raw_opportunities_source(raw_source, unique, ok)
                    /\ insert_calls' = Append(insert_calls, unique)
             ELSE UNCHANGED <<raw_opportunities, raw_source, insert_calls>>
    /\ UNCHANGED <<processor_vars, retry_vars, maintenance_vars, extraction_vars, relevance_vars, collector_run, existing_links, scrapers_done, scrapers_failed,
                   all_new_raw_opportunities>>

\* The collector stage is explored from a new raw store and from one that
\* holds a record an earlier run collected and rejected.
CollectorInit ==
    /\ \E stored \in {{}, {1}} :
         /\ raw_opportunities =
              [l \in Links |-> IF l \in stored THEN "processed_irrelevant" ELSE "absent"]
         /\ raw_source =
              [l \in Links |-> IF l \in stored THEN "Global South Opportunities" ELSE "none"]
    /\ processed_opportunities = {}
    /\ processed_rows = [l \in Links |-> NoRow]
    /\ ai_model = "configured"
    /\ enrichment_answers = EnrichmentTexts
    /\ ProcessorIdle
    /\ CollectorIdle
    /\ RelevanceIdle
    /\ RetryIdle
    /\ MaintenanceIdle
    /\ ExtractionIdle

CollectorNext ==
    \/ StartCollector
    \/ \E f \in scraper_functions : ScraperReturns(f)
    \/ \E f \in scraper_functions : ScraperRaises(f)
    \/ SaveNew

CollectorSpec == CollectorInit /\ [][CollectorNext]_vars

(***************************************************************************)
(* is_relevant_for_ethiopia evaluated on the geographic-scope results      *)
(* whose lists hold up to MaxLocations of the location strings.            *)
(***************************************************************************)
Locations == {"Ethiopia", " ETHIOPIA ", "East Africa", "Global", "Somalia", "Nigeria"}
LocationLists == UNION {[1..k -> Locations] : k \in 0..MaxLocations}
GeoScopeResults ==
    {[eligible |-> List(e), excluded |-> List(x)] : e \in LocationLists, x \in LocationLists}

Evaluated(result) == [state |-> "evaluated", result |-> result]

RelevanceInit ==
    /\ raw_opportunities = [l \in Links |-> "pending_analysis"]
    /\ raw_source = [l \in Links |-> "Global South Opportunities"]
    /\ processed_opportunities = {}
    /\ processed_rows = [l \in Links |-> NoRow]
    /\ ai_model = "configured"
    /\ enrichment_answers = EnrichmentTexts
    /\ ProcessorIdle
    /\ CollectorIdle
    /\ geo_input \in GeoScopeResults
    /\ relevance = NotEvaluated
    /\ RetryIdle
    /\ MaintenanceIdle
    /\ ExtractionIdle

\* Line 195 of analyze_opportunity: the rule is applied to the result.
Evaluate ==
    /\ relevance = NotEvaluated
    /\ relevance' = Evaluated(is_relevant_for_ethiopia(geo_input))
    /\ UNCHANGED <<raw_opportunities, raw_source, processor_vars, retry_vars, maintenance_vars, extraction_vars, collector_stage,
                   collector_run, existing_links, scrapers_done, scrapers_failed,
                   all_new_raw_opportunities, insert_calls, geo_input>>

RelevanceNext == Evaluate

RelevanceSpec == RelevanceInit /\ [][RelevanceNext]_vars

(***************************************************************************)
(* _call_gemini_with_retry followed on its own: every attempt succeeds, is *)
(* rate-limited with or without a suggested wait, or fails otherwise.      *)
(***************************************************************************)
\* The seconds a rate-limit error can suggest in `retry_delay { seconds: n }`.
SuggestedSeconds == {7, 30}

Failure(kind, suggested, wait_time) ==
    [kind |-> kind, suggested |-> suggested, wait_time |-> wait_time]

RetryInit ==
    /\ raw_opportunities = [l \in Links |-> "pending_analysis"]
    /\ raw_source = [l \in Links |-> "Global South Opportunities"]
    /\ processed_opportunities = {}
    /\ processed_rows = [l \in Links |-> NoRow]
    /\ ai_model = "configured"
    /\ enrichment_answers = EnrichmentTexts
    /\ ProcessorIdle
    /\ CollectorIdle
    /\ RelevanceIdle
    /\ retry_pc = "calling"
    /\ retry_i = 0
    /\ delay = base_delay
    /\ waits = <<>>
    /\ retry_result = Unset
    /\ MaintenanceIdle
    /\ ExtractionIdle

retry_frame ==
    UNCHANGED <<raw_opportunities, raw_source, processor_vars, collector_stage,
                collector_run, existing_links, scrapers_done, scrapers_failed,
                all_new_raw_opportunities, insert_calls, relevance_vars,
                maintenance_vars, extraction_vars>>

\* The last exception raised again when the budget is used up.
AfterFailureRaising(failure, next_delay) ==
    /\ waits' = Append(waits, failure)
    /\ delay' = next_delay
    /\ retry_i' = retry_i + 1
    /\ IF retry_i + 1 < retries
         THEN retry_pc' = "calling" /\ retry_result' = retry_result
         ELSE retry_pc' = "returned" /\ retry_result' = Raised

\* The except block has slept: the loop goes on with the next i, or ends and
\* the helper returns None (lines 31, 52-53).
AfterFailure(failure, next_delay) ==
    /\ waits' = Append(waits, failure)
    /\ delay' = next_delay
    /\ retry_i' = retry_i + 1
    /\ IF retry_i + 1 < retries
         THEN retry_pc' = "calling" /\ retry_result' = retry_result
         ELSE retry_pc' = "returned" /\ retry_result' = NoneResponse

\* Lines 33-35: generate_content returns and the text is returned.
AttemptSucceeds ==
    /\ retry_pc = "calling"
    /\ \E response_text \in GeoTexts : retry_result' = response_text
    /\ retry_pc' = "returned"
    /\ UNCHANGED <<retry_i, delay, waits>>
    /\ retry_frame

\* Lines 38-43: a rate-limit error that names a wait; the helper sleeps that
\* many seconds and one more, and leaves delay as it is.
AttemptRateLimitedWithSuggestedWait ==
    /\ retry_pc = "calling"
    /\ \E seconds \in SuggestedSeconds :
         AfterFailure(Failure("rate_limit", seconds, seconds + 1), delay)
    /\ retry_frame

\* Lines 44-47: a rate-limit error without one; sleep(delay), then delay *= 2.
AttemptRateLimited ==
    /\ retry_pc = "calling"
    /\ AfterFailure(Failure("rate_limit", 0, delay), delay * 2)
    /\ retry_frame

\* Lines 48-50: any other exception; sleep(delay), and delay is left as it is.
AttemptFailsOtherwise ==
    /\ retry_pc = "calling"
    /\ AfterFailure(Failure("other", 0, delay), delay)
    /\ retry_frame

RetryNext ==
    \/ AttemptSucceeds
    \/ AttemptRateLimitedWithSuggestedWait
    \/ AttemptRateLimited
    \/ AttemptFailsOtherwise

RetrySpec == RetryInit /\ [][RetryNext]_vars

(***************************************************************************)
(* run_maintenance_stage: the expired-deadline pass, then the stale pass,  *)
(* over the processed store.  Dates and timestamps are followed to the     *)
(* day, as YYYYMMDD.                                                       *)
(***************************************************************************)
DaysInMonth(year, month) ==
    IF month = 2
      THEN (IF year % 4 = 0 /\ (year % 100 # 0 \/ year % 400 = 0) THEN 29 ELSE 28)
    ELSE IF month \in {4, 6, 9, 11} THEN 30
    ELSE 31

\* d - relativedelta(months=n): the same day n months earlier, or the last
\* day of that month when it is shorter.
minus_months(d, n) ==
    LET months == (d \div 10000) * 12 + (((d \div 100) % 100) - 1) - n
        year == months \div 12
        month == (months % 12) + 1
        day == IF d % 100 > DaysInMonth(year, month) THEN DaysInMonth(year, month)
               ELSE d % 100
    IN  year * 10000 + month * 100 + day

\* The day after d.
tomorrow(d) ==
    LET year == d \div 10000
        month == (d \div 100) % 100
    IN  IF d % 100 < DaysInMonth(year, month) THEN d + 1
        ELSE IF month < 12 THEN year * 10000 + (month + 1) * 100 + 1
        ELSE (year + 1) * 10000 + 101

stale_keywords == {"Not Specified", "N/A"}

\* A row as the processor stage writes it for an accepted item with the given
\* enrichment deadline, on the given day.
StoredRow(link, raw_deadline_text, processed_at) ==
    [processed_at |-> processed_at] @@
    final_record(link, "Global South Opportunities",
                 [eligible |-> List(<<"Global">>), excluded |-> List(<<>>)],
                 Enrichment(Str("Grants for NGOs."), Str("$10,000"), raw_deadline_text,
                            List(<<"Health">>)))

\* The deadline texts and processing days of the rows the sweeper is explored
\* on: no concrete deadline with each kind of text, older than, at and younger
\* than the cutoff of the first day; concrete deadlines before, at and after
\* the first day.
StoredSamples ==
    { <<Str("Not Specified"), 20240331>>, <<Str("Not Specified"), 20240401>>,
      <<Str("Not Specified"), 20250101>>, <<Str("N/A"), 20240331>>,
      <<Str("Rolling"), 20240331>>, <<Str("2024-01-01"), 20240101>>,
      <<Str("2025-01-01"), 20240401>>, <<Str("2099-12-31"), 20240331>> }

StoredRows(link) ==
    {NoRow} \cup {StoredRow(link, sample[1], sample[2]) : sample \in StoredSamples}

\* The links that have a row.
LinksWithRow(rows) == {l \in Links : rows[l] # NoRow}

\* .not_.is_('deadline', None).lt('deadline', today_utc), the deadline on the day itself too
expired_filter_through_today(row, day) ==
    row.deadline # Null /\ strptime(row.deadline.v) <= day

\* .not_.is_('deadline', None).lt('deadline', today_utc)
expired_filter(row, day) ==
    row.deadline # Null /\ strptime(row.deadline.v) < day

\* The stale filter without the condition on raw_deadline_text.
stale_filter_any_text(row, cutoff) ==
    row.deadline = Null /\ row.processed_at < cutoff

\* .is_('deadline', None).in_('raw_deadline_text', stale_keywords).lt('processed_at', cutoff_iso)
stale_filter(row, cutoff) ==
    /\ row.deadline = Null
    /\ row.raw_deadline_text.t = "str"
    /\ row.raw_deadline_text.v \in stale_keywords
    /\ row.processed_at < cutoff

\* The rows a filter selects.
ExpiredIn(rows, day) == {l \in LinksWithRow(rows) : expired_filter(rows[l], day)}
StaleIn(rows, cutoff) == {l \in LinksWithRow(rows) : stale_filter(rows[l], cutoff)}

Without(rows, links) == [l \in Links |-> IF l \in links THEN NoRow ELSE rows[l]]

\* A pass that deletes one matching row per call.
delete_expired_first_match(rows, day, ok) ==
    IF ~ok \/ ExpiredIn(rows, day) = {} THEN rows
    ELSE Without(rows, {CHOOSE l \in ExpiredIn(rows, day) :
                            \A other \in ExpiredIn(rows, day) : l <= other})

\* The rows left by delete_expired_opportunities; an error is logged and
\* nothing is deleted.
delete_expired_opportunities(rows, day, ok) ==
    IF ~ok THEN rows ELSE Without(rows, ExpiredIn(rows, day))

\* The rows left by delete_stale_opportunities(threshold_months).
delete_stale_opportunities(rows, cutoff, ok) ==
    IF ~ok THEN rows ELSE Without(rows, StaleIn(rows, cutoff))

\* What the maintenance stage leaves alone.
analysis_vars == <<ai_model, enrichment_answers, stage, run, opportunities_to_process, work_queue, pc, attempt,
                   geo_response, enrichment_response, future, ai_semaphore,
                   status_updates_to_commit, call_log_vars>>

maintenance_frame ==
    UNCHANGED <<raw_opportunities, analysis_vars, collector_vars, relevance_vars, retry_vars,
                extraction_vars>>

\* run_maintenance_stage is called.
StartMaintenance ==
    /\ maintenance_stage \in {"idle", "finished"}
    /\ maintenance_run < MaxRuns
    /\ maintenance_stage' = "expired"
    /\ maintenance_run' = maintenance_run + 1
    /\ UNCHANGED <<processed_opportunities, processed_rows, clock, today_utc, cutoff_date,
                   expired_result, stale_result>>
    /\ maintenance_frame

\* db.delete_expired_opportunities()
DeleteExpired ==
    /\ maintenance_stage = "expired"
    /\ today_utc' = clock
    /\ \E ok \in BOOLEAN :
         /\ processed_rows' = delete_expired_opportunities(processed_rows, clock, ok)
         /\ expired_result' =
              IF ok THEN Deleted(Cardinality(LinksWithRow(processed_rows) \ LinksWithRow(processed_rows')))
              ELSE CallFailed
    /\ processed_opportunities' = LinksWithRow(processed_rows')
    /\ maintenance_stage' = "stale"
    /\ UNCHANGED <<maintenance_run, clock, cutoff_date, stale_result>>
    /\ maintenance_frame

\* db.delete_stale_opportunities(config.STALE_OPPORTUNITY_MONTHS)
DeleteStale ==
    /\ maintenance_stage = "stale"
    /\ cutoff_date' = minus_months(clock, STALE_OPPORTUNITY_MONTHS)
    /\ \E ok \in BOOLEAN :
         /\ processed_rows' = delete_stale_opportunities(processed_rows, cutoff_date', ok)
         /\ stale_result' =
              IF ok THEN Deleted(Cardinality(LinksWithRow(processed_rows) \ LinksWithRow(processed_rows')))
              ELSE CallFailed
    /\ processed_opportunities' = LinksWithRow(processed_rows')
    /\ maintenance_stage' = "finished"
    /\ UNCHANGED <<maintenance_run, clock, today_utc, expired_result>>
    /\ maintenance_frame

\* Midnight UTC passes.
DayPasses ==
    /\ clock < LastDay
    /\ clock' = tomorrow(clock)
    /\ UNCHANGED <<processed_opportunities, processed_rows, maintenance_stage, maintenance_run,
                   today_utc, cutoff_date, expired_result, stale_result>>
    /\ maintenance_frame

\* The sweeper is explored on every processed store of sample rows; a link
\* with a row is processed_relevant in the raw store.
MaintenanceInit ==
    /\ processed_rows \in [Links -> UNION {StoredRows(l) : l \in Links}]
    /\ \A l \in Links : processed_rows[l] \in StoredRows(l)
    /\ processed_opportunities = LinksWithRow(processed_rows)
    /\ raw_opportunities = [l \in Links |-> IF processed_rows[l] # NoRow THEN "processed_relevant"
                                            ELSE "processed_irrelevant"]
    /\ raw_source = [l \in Links |-> "Global South Opportunities"]
    /\ ai_model = "configured"
    /\ enrichment_answers = EnrichmentTexts
    /\ ProcessorIdle
    /\ CollectorIdle
    /\ RelevanceIdle
    /\ RetryIdle
    /\ MaintenanceIdle
    /\ ExtractionIdle

MaintenanceNext == StartMaintenance \/ DeleteExpired \/ DeleteStale \/ DayPasses

MaintenanceSpec == MaintenanceInit /\ [][MaintenanceNext]_vars

(***************************************************************************)
(* The main block, lines 280-283: run_maintenance_stage(), then            *)
(* run_collector_stage(), then run_processor_stage(), each called when the *)
(* call before it has returned.                                            *)
(***************************************************************************)
\* Line 281.
MainCallsMaintenance ==
    /\ maintenance_run = 0
    /\ StartMaintenance

\* The collector stage called without waiting for the maintenance stage.
MainCallsCollectorAtOnce ==
    /\ collector_run = 0
    /\ StartCollector

\* Line 282, reached when run_maintenance_stage has returned.
MainCallsCollector ==
    /\ maintenance_stage = "finished"
    /\ collector_run = 0
    /\ StartCollector

\* Line 283, reached when run_collector_stage has returned; its locals are
\* gone.
MainCallsProcessor ==
    /\ collector_stage = "finished"
    /\ run = 0
    /\ ReadPendingAndSubmit
    /\ existing_links' = {}
    /\ scrapers_done' = {}
    /\ scrapers_failed' = {}
    /\ all_new_raw_opportunities' = <<>>
    /\ insert_calls' = <<>>
    /\ UNCHANGED <<raw_source, collector_stage, collector_run, retry_vars, maintenance_vars, extraction_vars,
                   relevance_vars>>

\* One invocation of the pipeline starts from a raw store that is new or
\* holds a record accepted by an earlier invocation, with its row expired
\* or current.
PipelineInit ==
    /\ \E stored \in {{}, {1}} :
         /\ raw_opportunities =
              [l \in Links |-> IF l \in stored THEN "processed_relevant" ELSE "absent"]
         /\ raw_source =
              [l \in Links |-> IF l \in stored THEN "Global South Opportunities" ELSE "none"]
         /\ \E sample \in {<<Str("2024-01-01"), 20240101>>, <<Str("Rolling"), 20240331>>} :
              processed_rows =
                  [l \in Links |-> IF l \in stored THEN StoredRow(l, sample[1], sample[2])
                                   ELSE NoRow]
    /\ processed_opportunities = LinksWithRow(processed_rows)
    /\ ai_model \in {"configured", "None"}
    /\ enrichment_answers = EnrichmentTexts
    /\ ProcessorIdle
    /\ CollectorIdle
    /\ RelevanceIdle
    /\ RetryIdle
    /\ MaintenanceIdle
    /\ ExtractionIdle

PipelineNext ==
    \/ MainCallsMaintenance
    \/ DeleteExpired
    \/ DeleteStale
    \/ MainCallsCollector
    \/ \E f \in scraper_functions : ScraperReturns(f)
    \/ \E f \in scraper_functions : ScraperRaises(f)
    \/ SaveNew
    \/ MainCallsProcessor
    \/ \E l \in Links : Dequeue(l)
    \/ \E l \in Links : Acquire(l)
    \/ \E l \in Links : GeoAttemptFails(l)
    \/ \E l \in Links : GeoAttemptSucceeds(l)
    \/ \E l \in Links : GeoNotConfigured(l)
    \/ \E l \in Links : EnrichmentAttemptFails(l)
    \/ \E l \in Links : EnrichmentAttemptSucceeds(l)
    \/ Commit

PipelineSpec == PipelineInit /\ [][PipelineNext]_vars

(***************************************************************************)
(* The extraction of the JSON object from a response text, lines 91-95 of  *)
(* get_geographic_scope (and 139-143 of get_enrichment_data).  A text is a *)
(* sequence of segments: prose without braces, a well-formed JSON object,  *)
(* or other text in braces.                                                *)
(***************************************************************************)
Prose == [kind |-> "prose"]
JsonObject(obj) == [kind |-> "object", data |-> obj]
BracedText == [kind |-> "braces"]

Segments ==
    { Prose, BracedText,
      JsonObject([eligible |-> List(<<"East Africa">>), excluded |-> List(<<"Somalia">>)]),
      JsonObject([eligible |-> List(<<"Nigeria">>), excluded |-> List(<<>>)]) }

ResponseSegments == UNION {[1..k -> Segments] : k \in 0..MaxSegments}

\* The segments of a text that hold a brace.
Braced(text) == {i \in 1..Len(text) : text[i].kind # "prose"}

\* re.search(r'\{.*\}', response_text, re.DOTALL): with the greedy `.*` the
\* match runs from the first opening brace to the last closing brace of the
\* text; <<>> stands for no match.
json_match(text) ==
    IF Braced(text) = {} THEN <<>>
    ELSE LET first == CHOOSE i \in Braced(text) : \A j \in Braced(text) : i <= j
             last == CHOOSE i \in Braced(text) : \A j \in Braced(text) : j <= i
         IN  SubSeq(text, first, last)

\* json.loads(json_match.group(0)) decodes a string that is one JSON value and
\* raises JSONDecodeError for any other.
Decodes(match) == Len(match) = 1 /\ match[1].kind = "object"

\* The response text as the adapters see it.
AsResponseText(text) ==
    IF text = <<>> THEN [kind |-> "text", body |-> "empty"]
    ELSE IF json_match(text) = <<>> THEN NoJsonText
    ELSE IF Decodes(json_match(text)) THEN JsonText(json_match(text)[1].data)
    ELSE MalformedText

Extracted(data) == [state |-> "extracted", data |-> data]

ExtractionInit ==
    /\ raw_opportunities = [l \in Links |-> "pending_analysis"]
    /\ raw_source = [l \in Links |-> "Global South Opportunities"]
    /\ processed_opportunities = {}
    /\ processed_rows = [l \in Links |-> NoRow]
    /\ ai_model = "configured"
    /\ enrichment_answers = EnrichmentTexts
    /\ ProcessorIdle
    /\ CollectorIdle
    /\ RelevanceIdle
    /\ RetryIdle
    /\ MaintenanceIdle
    /\ response_segments \in ResponseSegments
    /\ extracted = NotExtracted

\* get_geographic_scope is given the text as the response of its call.
Extract ==
    /\ extracted = NotExtracted
    /\ extracted' = Extracted(get_geographic_scope(ai_model, AsResponseText(response_segments)))
    /\ UNCHANGED <<raw_opportunities, analysis_vars, processed_opportunities, processed_rows,
                   collector_vars, relevance_vars, retry_vars, maintenance_vars,
                   response_segments>>

ExtractionNext == Extract

ExtractionSpec == ExtractionInit /\ [][ExtractionNext]_vars

(***************************************************************************)
(* Properties.                                                             *)
(***************************************************************************)
\* The items of the current run.
RunItems == Range(opportunities_to_process)

\* The items inside a classifier round-trip: a geographic-scope or an
\* enrichment call, retries included.
InFlight == {l \in Links : pc[l] \in {"geo", "enrich"}}

\* The links of a list of status updates.
LinksOf(updates) == {updates[i].link : i \in 1..Len(updates)}

\* The links named in any bulk status update issued in this run.
CommittedLinks ==
    UNION {LinksOf(bulk_update_calls[i]) : i \in 1..Len(bulk_update_calls)}

RECURSIVE SumUpTo(_, _)
SumUpTo(f, n) == IF n = 0 THEN 0 ELSE f[n] + SumUpTo(f, n - 1)
TotalUpsertCalls == SumUpTo(upsert_calls, NumLinks)

Accepted == {l \in RunItems : future[l] = Returned("True", <<StatusUpdate(l, "processed_relevant")>>)}
Rejected ==
    {l \in RunItems :
        \E st \in {"processed_irrelevant", "processed_ai_error", "processed_expired"} :
            future[l] = Returned("False", <<StatusUpdate(l, st)>>)}
RetryLater == {l \in RunItems : future[l] = Returned("None", <<>>)}
RaisedItems == {l \in RunItems : future[l] = Raised}

\* C1: in every state the number of items inside a classifier round-trip is
\* at most MAX_CONCURRENT_AI_CALLS, and each of them holds one permit of the
\* gate (the in-flight items and the free permits add up to the capacity).
C1_InFlightBounded ==
    /\ Cardinality(InFlight) <= MAX_CONCURRENT_AI_CALLS
    /\ ai_semaphore >= 0
    /\ Cardinality(InFlight) + ai_semaphore = MAX_CONCURRENT_AI_CALLS

\* C1 witness: the cap is reached while a further item is still queued.
C1_Witness ==
    /\ Cardinality(InFlight) = MAX_CONCURRENT_AI_CALLS
    /\ work_queue # <<>>

\* C2 as claimed: in every state, every link of the processed store has raw
\* status processed_relevant.
C2_ProcessedImpliesRelevant ==
    \A l \in processed_opportunities : raw_opportunities[l] = "processed_relevant"

\* C2 amended: at the end of a run whose bulk status update succeeded, every
\* link whose row was written in that run has raw status processed_relevant.
C2_RelevantAfterCommit ==
    (stage = "finished" /\ bulk_update_result = "ok") =>
        \A l \in upserted : raw_opportunities[l] = "processed_relevant"

\* C2 witness: a run committed with a row written in it, next to a rejected item.
C2_Witness ==
    /\ stage = "finished"
    /\ bulk_update_result = "ok"
    /\ upserted # {}
    /\ Rejected # {}

\* A run that ended with every item accepted or rejected.
RunEndedWithoutRetryOrRaise ==
    /\ stage = "finished"
    /\ RetryLater = {}
    /\ RaisedItems = {}

\* The run read the pending list without a store error.
PendingListRead == \A l \in Links : raw_opportunities[l] = "pending_analysis" => l \in RunItems

\* C3 as claimed: a finished run of N accepted and M rejected items, N, M >= 0,
\* made exactly one bulk update call of N+M entries and N upsert calls.
C3_OneBulkCallOfAllEntries ==
    (RunEndedWithoutRetryOrRaise /\ PendingListRead) =>
        /\ Len(bulk_update_calls) = 1
        /\ Len(bulk_update_calls[1]) = Cardinality(Accepted) + Cardinality(Rejected)
        /\ TotalUpsertCalls = Cardinality(Accepted)

\* C3 amended: with N+M >= 1 the run made exactly one bulk update call, whose
\* N+M entries are one per item, and N upsert calls; with N+M = 0 it made no
\* bulk update call and no upsert call.
C3_OneBulkCallUnlessEmpty ==
    RunEndedWithoutRetryOrRaise =>
        /\ TotalUpsertCalls = Cardinality(Accepted)
        /\ IF Accepted \cup Rejected = {}
             THEN bulk_update_calls = <<>>
             ELSE /\ Len(bulk_update_calls) = 1
                  /\ Len(bulk_update_calls[1]) = Cardinality(Accepted) + Cardinality(Rejected)
                  /\ LinksOf(bulk_update_calls[1]) = Accepted \cup Rejected

\* C3 witness: a finished run with accepted and with rejected items.
C3_Witness ==
    /\ RunEndedWithoutRetryOrRaise
    /\ Accepted # {}
    /\ Rejected # {}
    /\ Cardinality(Accepted) + Cardinality(Rejected) = NumLinks

\* C4: while an item of the run is queued or being analysed no bulk update has
\* been issued and every item of the run still has the status it was read
\* with; a bulk update is issued only when every worker has completed, and at
\* most once per run.
C4_FlushOnceAfterAllWorkers ==
    /\ ~AllCollected =>
          /\ bulk_update_calls = <<>>
          /\ \A l \in RunItems : raw_opportunities[l] = "pending_analysis"
    /\ bulk_update_calls # <<>> => AllCollected
    /\ Len(bulk_update_calls) <= 1

\* C4 witness: the bulk update of a run of several items has been issued.
C4_Witness ==
    /\ Len(bulk_update_calls) = 1
    /\ Len(bulk_update_calls[1]) >= 2
    /\ raw_opportunities # [l \in Links |-> "pending_analysis"]

\* C5 as claimed: after a run, every item whose geographic-scope call or
\* enrichment call exhausted its retries still has status pending_analysis.
C5_TransientFailureStaysPending ==
    stage = "finished" =>
        \A l \in RunItems :
            (geo_response[l] = NoneResponse \/ enrichment_response[l] = NoneResponse)
                => raw_opportunities[l] = "pending_analysis"

\* No status update for link l is in the batch or in a bulk update call.
NoUpdateFor(l) ==
    /\ l \notin LinksOf(status_updates_to_commit)
    /\ l \notin CommittedLinks

\* C6: an item whose enrichment call returned the retries-exhausted failure
\* returns (None, None), has no processed-store write, and has no entry in
\* the run's batch.
C6_EnrichmentFailureEmitsNothing ==
    \A l \in Links :
        enrichment_response[l] = NoneResponse =>
            /\ future[l] = Returned("None", <<>>)
            /\ upsert_calls[l] = 0
            /\ l \notin upserted
            /\ NoUpdateFor(l)

\* C6 witness: a run with such an item has issued its bulk update for the others.
C6_Witness ==
    /\ \E l \in Links : enrichment_response[l] = NoneResponse
    /\ bulk_update_calls # <<>>

\* C7: an item whose analysis raised has no status update in the batch; the
\* run still goes on (a step is enabled until it has finished); and when it
\* has finished every other item has its outcome and every status update the
\* other items returned is in the one bulk update call.
C7_ExceptionIsolated ==
    /\ \A l \in RaisedItems : NoUpdateFor(l)
    /\ (stage = "analysing" /\ RaisedItems # {}) => ENABLED Next
    /\ (stage = "finished" /\ RaisedItems # {}) =>
          /\ \A l \in RunItems : future[l] # NoFuture
          /\ \A l \in Accepted \cup Rejected :
                /\ Len(bulk_update_calls) = 1
                /\ \E i \in 1..Len(bulk_update_calls[1]) :
                      bulk_update_calls[1][i] = future[l].status_update[1]

\* C7 witness: a finished run in which one item raised and the others were
\* accepted or rejected and are in the bulk update.
C7_Witness ==
    /\ stage = "finished"
    /\ Cardinality(RaisedItems) = 1
    /\ Accepted \cup Rejected # {}
    /\ Accepted \cup Rejected \cup RaisedItems = Links
    /\ Len(bulk_update_calls) = 1

\* The geography rule on what the geographic-scope call of l returned.
GeoRelevant(l) ==
    LET geo_data == get_geographic_scope(ai_model, geo_response[l])
    IN  ~GeoRaises(geo_data) /\ is_relevant_for_ethiopia(geo_data).relevant
GeoNotRelevant(l) ==
    LET geo_data == get_geographic_scope(ai_model, geo_response[l])
    IN  ~GeoRaises(geo_data) /\ ~is_relevant_for_ethiopia(geo_data).relevant

\* C8: an item is in, or past, its enrichment call only when its
\* geographic-scope call has returned and the rule judged it relevant; an
\* item judged not relevant returns processed_irrelevant, with no enrichment
\* call and no processed-store write.
C8_EnrichmentOnlyAfterRelevantGeo ==
    \A l \in Links :
        /\ (pc[l] = "enrich" \/ enrichment_response[l] # Unset) =>
              (geo_response[l] # Unset /\ GeoRelevant(l))
        /\ (geo_response[l] # Unset /\ GeoNotRelevant(l)) =>
              /\ future[l] = Returned("False", <<StatusUpdate(l, "processed_irrelevant")>>)
              /\ pc[l] = "done"
              /\ enrichment_response[l] = Unset
              /\ upsert_calls[l] = 0
              /\ l \notin upserted

\* C8 witness: one item is in its enrichment call, another was judged not relevant.
C8_Witness ==
    /\ \E l \in Links : pc[l] = "enrich" /\ attempt[l] > 0
    /\ \E l \in Links : geo_response[l] # Unset /\ GeoNotRelevant(l)

\* The enrichment response of l is an object whose deadline parses to a date
\* strictly before today.
HasPastDeadline(l) ==
    /\ enrichment_response[l].kind = "text"
    /\ enrichment_response[l].body = "json"
    /\ enrichment_response[l].data.deadline.t = "str"
    /\ parse_date(enrichment_response[l].data.deadline.v) # 0
    /\ parse_date(enrichment_response[l].data.deadline.v) < today

\* The enrichment response of l is an object whose summary is a text without
\* the failure and error tokens and whose funding amount is not "Error".
NoFailureOrErrorToken(l) ==
    /\ enrichment_response[l].kind = "text"
    /\ enrichment_response[l].body = "json"
    /\ enrichment_response[l].data.summary.t = "str"
    /\ ~Contains(enrichment_response[l].data.summary.v, "AI call failed")
    /\ ~Contains(enrichment_response[l].data.summary.v, "malformed JSON")
    /\ ~Contains(enrichment_response[l].data.summary.v, "No JSON object")
    /\ enrichment_response[l].data.funding_amount # Str("Error")

ReturnedExpired(l) ==
    /\ future[l] = Returned("False", <<StatusUpdate(l, "processed_expired")>>)
    /\ upsert_calls[l] = 0
    /\ l \notin upserted

\* C9 as claimed: every item whose enrichment result carries a parseable
\* deadline strictly before today returns processed_expired, and no row is
\* written for it.
C9_PastDeadlineExpired ==
    \A l \in Links : HasPastDeadline(l) => ReturnedExpired(l)

\* C9 amended: the same for the items whose enrichment result has a text
\* summary without the failure and error tokens and a funding amount other
\* than "Error".
C9_PastDeadlineExpiredUnlessError ==
    \A l \in Links : (HasPastDeadline(l) /\ NoFailureOrErrorToken(l)) => ReturnedExpired(l)

\* C9 witness: such an item has returned, and the run has committed it.
C9_Witness ==
    \E l \in Links :
        /\ HasPastDeadline(l)
        /\ NoFailureOrErrorToken(l)
        /\ raw_opportunities[l] = "processed_expired"

\* The enrichment call of l returned text with no JSON object or with
\* malformed JSON.
MalformedEnrichment(l) == enrichment_response[l] \in {NoJsonText, MalformedText}

ReturnedAiError(l) ==
    /\ future[l] = Returned("False", <<StatusUpdate(l, "processed_ai_error")>>)
    /\ upsert_calls[l] = 0
    /\ l \notin upserted

\* C10 as claimed: an item whose enrichment call returned malformed text or no
\* JSON object returns processed_ai_error with no row written, and it is not
\* in the pending list the next run reads.
C10_MalformedNeverAnalysedAgain ==
    /\ [](\A l \in Links : MalformedEnrichment(l) => ReturnedAiError(l))
    /\ [][\A l \in Links :
            (run' = run + 1 /\ MalformedEnrichment(l)) => l \notin Range(opportunities_to_process')]_vars

\* C10 amended: such an item returns processed_ai_error with no row written;
\* when the run's bulk status update has succeeded its raw status is
\* processed_ai_error, and a record with that status keeps it and is in no
\* later run's pending list.
C10_MalformedNotAnalysedAgainOnceCommitted ==
    /\ [](\A l \in Links : MalformedEnrichment(l) => ReturnedAiError(l))
    /\ [](\A l \in Links :
            (MalformedEnrichment(l) /\ stage = "finished" /\ bulk_update_result = "ok")
                => raw_opportunities[l] = "processed_ai_error")
    /\ [][\A l \in Links :
            raw_opportunities[l] = "processed_ai_error" =>
                /\ raw_opportunities'[l] = "processed_ai_error"
                /\ l \notin Range(opportunities_to_process')]_vars

\* C10 witness: a later run is analysing while a record committed as
\* processed_ai_error is left out of it.
C10_Witness ==
    /\ run = 2
    /\ stage = "analysing"
    /\ \E l \in Links : raw_opportunities[l] = "processed_ai_error" /\ pc[l] = "none"

\* C11 as claimed: in every state, every raw record with status
\* processed_relevant has a row in the processed store (written during its
\* analysis), also when the processed-store write failed.
C11_RelevantImpliesRowWritten ==
    \A l \in Links :
        raw_opportunities[l] = "processed_relevant" => l \in processed_opportunities

\* The step writes the row of l: its upsert succeeds.
RowWritten(l) == l \in upserted' /\ l \notin upserted

\* C12 as claimed: no step writes the row of a link that already has a row.
C12_RowWrittenExactlyOnce ==
    [][\A l \in Links : l \in processed_opportunities => ~RowWritten(l)]_vars

\* C12 amended: within a run there is at most one upsert call per item, and
\* no step writes the row of a link whose raw status is no longer
\* pending_analysis.
C12_RowNotWrittenAgainOnceCommitted ==
    /\ [](\A l \in Links : upsert_calls[l] <= 1)
    /\ [][\A l \in Links :
            raw_opportunities[l] # "pending_analysis" => ~RowWritten(l)]_vars

\* C12 witness: a later run has analysed another item to its end while a link
\* committed as processed_relevant, with its row, was left out of it.
C12_Witness ==
    /\ run = 2
    /\ stage = "finished"
    /\ RunItems # {}
    /\ \E l \in Links :
          /\ l \in processed_opportunities
          /\ raw_opportunities[l] = "processed_relevant"
          /\ l \notin RunItems

\* C13: when the bulk status update fails it was the only bulk call of the
\* run, the step leaves every raw status as it was (every item of the run is
\* still pending_analysis), and the stage has returned.
C13_FailedBulkUpdateChangesNothing ==
    /\ [](bulk_update_result = "failed" =>
            /\ Len(bulk_update_calls) = 1
            /\ stage = "finished"
            /\ \A l \in RunItems : raw_opportunities[l] = "pending_analysis")
    /\ [][(bulk_update_result # "failed" /\ bulk_update_result' = "failed") =>
            raw_opportunities' = raw_opportunities]_vars

\* C13 witness: the bulk update of a run with verdicts for all items failed.
C13_Witness ==
    /\ bulk_update_result = "failed"
    /\ Accepted # {}
    /\ Rejected # {}
    /\ \A l \in Links : raw_opportunities[l] = "pending_analysis"

\* C14: a finished run in which no item returned a terminal verdict has
\* issued no bulk status update.
C14_NoVerdictNoBulkCall ==
    (stage = "finished" /\ Accepted \cup Rejected = {}) =>
        /\ bulk_update_calls = <<>>
        /\ bulk_update_result = "none"

\* C14 witness: a finished run whose items were retry-later or raised.
C14_Witness ==
    /\ stage = "finished"
    /\ RetryLater # {}
    /\ RaisedItems # {}
    /\ RetryLater \cup RaisedItems = Links

\* The index of the first candidate with link l, in completion order.
FirstIndexOf(l) ==
    CHOOSE i \in 1..Len(all_new_raw_opportunities) :
        /\ all_new_raw_opportunities[i].link = l
        /\ \A j \in 1..(i - 1) : all_new_raw_opportunities[j].link # l

\* C15: in every list passed to the raw-store insert each link of the
\* candidates appears exactly once, and its record is the first candidate
\* with that link in completion order.
C15_EachLinkOnceFirstKept ==
    \A c \in 1..Len(insert_calls) :
        /\ \A l \in LinksOf(all_new_raw_opportunities) :
              Cardinality({i \in 1..Len(insert_calls[c]) : insert_calls[c][i].link = l}) = 1
        /\ \A i \in 1..Len(insert_calls[c]) :
              insert_calls[c][i] = all_new_raw_opportunities[FirstIndexOf(insert_calls[c][i].link)]

\* C15 witness: the insert was called with one record after two adapters
\* returned the same link with different records.
C15_Witness ==
    /\ Len(insert_calls) = 1
    /\ Len(insert_calls[1]) = 1
    /\ \E i, j \in 1..Len(all_new_raw_opportunities) :
          /\ i < j
          /\ all_new_raw_opportunities[i].link = all_new_raw_opportunities[j].link
          /\ all_new_raw_opportunities[i] # all_new_raw_opportunities[j]

\* C16: no candidate, and no record of a list passed to the raw-store insert,
\* has a link of the known-link set read at the start of the stage.
C16_NoKnownLinkInserted ==
    /\ LinksOf(all_new_raw_opportunities) \cap existing_links = {}
    /\ \A c \in 1..Len(insert_calls) : LinksOf(insert_calls[c]) \cap existing_links = {}

\* C16 witness: with a known link in the set, a new link was inserted.
C16_Witness ==
    /\ existing_links # {}
    /\ Len(insert_calls) = 1
    /\ \E l \in Links : l \notin existing_links /\ raw_opportunities[l] = "pending_analysis"

\* C17: a collector run makes at most one bulk insert, never of an empty
\* list, and none when it ends with no candidate left after reconciliation.
C17_AtMostOneInsert ==
    /\ Len(insert_calls) <= 1
    /\ \A c \in 1..Len(insert_calls) : insert_calls[c] # <<>>
    /\ (collector_stage = "finished" /\ all_new_raw_opportunities = <<>>) =>
          insert_calls = <<>>

\* C17 witness: a run in which every adapter completed with nothing new has
\* finished without an insert, the store holding known links.
C17_Witness ==
    /\ collector_stage = "finished"
    /\ scrapers_done = scraper_functions
    /\ all_new_raw_opportunities = <<>>
    /\ insert_calls = <<>>
    /\ existing_links # {}

\* C18 as claimed: no step of the collector stage changes the record of a
\* stored link (its content and its status) or removes it, also when the
\* known-link read returned only part of the stored links.
C18_StoredRecordNeverChanged ==
    [][\A l \in Links :
          raw_opportunities[l] # "absent" =>
              /\ raw_opportunities'[l] = raw_opportunities[l]
              /\ raw_source'[l] = raw_source[l]]_vars

\* The list names the target country: one of its entries, lowered and
\* trimmed, is "ethiopia".
NamesTargetCountry(locations) ==
    \E i \in 1..Len(locations.v) : LowerStrip(locations.v[i]) = "ethiopia"

\* C19: for every evaluated result whose excluded list names the target
\* country the rule returned not relevant, whatever the eligible list holds.
C19_ExcludedMeansNotRelevant ==
    (relevance # NotEvaluated /\ NamesTargetCountry(geo_input.excluded)) =>
        relevance.result.relevant = FALSE

\* C19 witness: an evaluated result that excludes the target country, in
\* another spelling, while its eligible list names it next to a broad scope.
C19_Witness ==
    /\ relevance # NotEvaluated
    /\ geo_input.excluded.v = <<" ETHIOPIA ">>
    /\ geo_input.eligible.v = <<"Ethiopia", "Global">>
    /\ relevance.result.relevant = FALSE

\* C20: for every evaluated result whose eligible list names the target
\* country and whose excluded list does not, the rule returned relevant.
C20_EligibleMeansRelevant ==
    (/\ relevance # NotEvaluated
     /\ NamesTargetCountry(geo_input.eligible)
     /\ ~NamesTargetCountry(geo_input.excluded)) =>
        relevance.result.relevant = TRUE

\* C20 witness: an evaluated result whose eligible list names another
\* country before the target country and whose excluded list names a third.
C20_Witness ==
    /\ relevance # NotEvaluated
    /\ geo_input.eligible.v = <<"Nigeria", " ETHIOPIA ">>
    /\ geo_input.excluded.v = <<"Somalia">>
    /\ relevance.result.relevant = TRUE

\* The fixed allow-list of broad scopes, as the rule compares it: a location
\* is broad when, lowered and trimmed, it is one of these.
IsBroadScope(location) ==
    LowerStrip(location) \in {"east africa", "horn of africa", "africa",
                              "sub-saharan africa", "global", "international",
                              "developing countries"}

\* The evaluated result names the target country in neither list.
TargetCountryNotNamed ==
    /\ relevance # NotEvaluated
    /\ ~NamesTargetCountry(geo_input.eligible)
    /\ ~NamesTargetCountry(geo_input.excluded)

\* C21: for every evaluated result that names the target country in neither
\* list and whose eligible list holds a location outside the allow-list, the
\* rule returned not relevant, also with a broad scope in the same list.
C21_SpecificLocationMeansNotRelevant ==
    (/\ TargetCountryNotNamed
     /\ \E i \in 1..Len(geo_input.eligible.v) : ~IsBroadScope(geo_input.eligible.v[i])) =>
        relevance.result.relevant = FALSE

\* C21 witness: an evaluated result whose eligible list holds a broad scope
\* and another country.
C21_Witness ==
    /\ TargetCountryNotNamed
    /\ geo_input.eligible.v = <<"Global", "Nigeria">>
    /\ relevance.result.relevant = FALSE

\* C22: for every evaluated result that names the target country in neither
\* list and whose eligible list holds only broad scopes, the rule returned
\* relevant iff that list is not empty, and a relevant result's reason lists
\* the broad scopes of the eligible list.
C22_BroadScopesRelevantIffNonEmpty ==
    (/\ TargetCountryNotNamed
     /\ \A i \in 1..Len(geo_input.eligible.v) : IsBroadScope(geo_input.eligible.v[i])) =>
        /\ relevance.result.relevant = (geo_input.eligible.v # <<>>)
        /\ relevance.result.relevant =>
              /\ relevance.result.reason = "Includes a relevant general scope"
              /\ relevance.result.scopes =
                    [i \in 1..Len(geo_input.eligible.v) |-> LowerStrip(geo_input.eligible.v[i])]

\* C22 witness: eligible [East Africa], excluded [Somalia] was evaluated as
\* relevant with a reason naming East Africa.
C22_Witness ==
    /\ relevance # NotEvaluated
    /\ geo_input.eligible.v = <<"East Africa">>
    /\ geo_input.excluded.v = <<"Somalia">>
    /\ relevance.result.relevant = TRUE
    /\ relevance.result.scopes = <<"east africa">>

\* The decoded enrichment object of an item whose row was written in this run.
EnrichmentOf(l) == enrichment_response[l].data

\* C23: an accepted item whose enrichment deadline string is one of the
\* rolling/unspecified keywords has, in the row written for it, a null
\* deadline and as raw_deadline_text the classifier's string unchanged.
C23_KeywordDeadlineNullRawTextKept ==
    \A l \in upserted :
        LET deadline_str == EnrichmentOf(l).deadline
        IN  (deadline_str.t = "str"
                /\ deadline_str.v \in {"Rolling", "Ongoing", "Not Specified",
                                       "Quarterly", "N/A"})
            => /\ processed_rows[l] # NoRow
               /\ processed_rows[l].deadline = Null
               /\ processed_rows[l].raw_deadline_text = deadline_str

\* C23 witness: a row written for a "Rolling" deadline: null deadline, raw
\* text "Rolling".
C23_Witness ==
    \E l \in upserted :
        /\ EnrichmentOf(l).deadline = Str("Rolling")
        /\ raw_opportunities[l] = "processed_relevant"
        /\ processed_rows[l].deadline = Null
        /\ processed_rows[l].raw_deadline_text = Str("Rolling")

\* The first three entries of a list, in order, or the whole list when it has
\* three or fewer.
AtMostFirstThree(focus_areas) ==
    [i \in 1..(IF Len(focus_areas) > 3 THEN 3 ELSE Len(focus_areas)) |-> focus_areas[i]]

\* C24: for a response whose focus_areas list has more than three entries the
\* result handed to the worker holds exactly the first three in their order,
\* a list of three or fewer is unchanged, and the row written for the item
\* stores those entries, joined.
C24_FocusAreasFirstThreeInOrder ==
    \A l \in Links :
        (/\ enrichment_response[l].kind = "text"
         /\ enrichment_response[l].body = "json"
         /\ EnrichmentOf(l).focus_areas.t = "list")
        => /\ get_enrichment_data(enrichment_response[l]).focus_areas =
                 List(AtMostFirstThree(EnrichmentOf(l).focus_areas.v))
           /\ l \in upserted =>
                 processed_rows[l].focus_areas =
                     Join(AtMostFirstThree(EnrichmentOf(l).focus_areas.v))

\* C24 witness: a row written from a response with four focus areas stores the
\* first three.
C24_Witness ==
    \E l \in upserted :
        /\ Len(EnrichmentOf(l).focus_areas.v) = 4
        /\ get_enrichment_data(enrichment_response[l]).focus_areas =
             List(<<"Health", "Education", "Research">>)
        /\ processed_rows[l].focus_areas = "Health, Education, Research"

\* The expired-deadline pass, and the stale pass, runs in this step.
ExpiredPassRuns == maintenance_stage = "expired" /\ maintenance_stage' = "stale"
StalePassRuns == maintenance_stage = "stale" /\ maintenance_stage' = "finished"

\* The stored row of l has a concrete deadline strictly before the day.
PastDeadline(l, day) ==
    /\ processed_rows[l] # NoRow
    /\ processed_rows[l].deadline # Null
    /\ strptime(processed_rows[l].deadline.v) < day

\* The stored row of l has no deadline, an unspecified deadline text and was
\* processed before the cutoff.
StaleRow(l, cutoff) ==
    /\ processed_rows[l] # NoRow
    /\ processed_rows[l].deadline = Null
    /\ processed_rows[l].raw_deadline_text \in {Str("Not Specified"), Str("N/A")}
    /\ processed_rows[l].processed_at < cutoff

\* The cutoff of a stale pass run now.
CutoffNow == minus_months(clock, STALE_OPPORTUNITY_MONTHS)

C28_StagesInOrderEachOnce ==
    /\ maintenance_run <= 1
    /\ collector_run <= 1
    /\ run <= 1
    /\ collector_stage # "idle" =>
          (maintenance_stage = "finished" /\ expired_result # NoResult
              /\ stale_result # NoResult)
    /\ stage # "idle" => collector_stage = "finished"

\* C28 witness: all three stages have run: the passes have ended, a link the
\* collector inserted has been analysed and committed.
C28_Witness ==
    /\ maintenance_stage = "finished"
    /\ expired_result = Deleted(1)
    /\ collector_stage = "finished"
    /\ stage = "finished"
    /\ raw_opportunities[NumLinks] = "processed_relevant"
    /\ NumLinks \in upserted

\* C29: the helper makes at most `retries` attempts and can always go on
\* until it has returned; it returns the text of its first successful
\* attempt, every earlier attempt having failed, and None, not an exception,
\* when all `retries` attempts have failed.
C29_RetryHelperTerminates ==
    /\ Len(waits) <= retries
    /\ retry_i = Len(waits)
    /\ retry_pc = "calling" => (retry_i < retries /\ ENABLED RetryNext)
    /\ retry_pc = "returned" =>
          \/ retry_result \in GeoTexts /\ Len(waits) < retries
          \/ retry_result = NoneResponse /\ Len(waits) = retries

\* C29 witness: the helper has returned None after `retries` failed attempts.
C29_Witness ==
    /\ retry_pc = "returned"
    /\ retry_result = NoneResponse
    /\ Len(waits) = retries

\* C30 as claimed: after a rate-limit failure with a suggested wait the helper
\* sleeps that time (and its one-second margin); of two consecutive failures
\* without a suggested wait, rate-limit or other, the second is followed by
\* twice the sleep of the first.
C30_WaitDoublesAfterEachFailure ==
    /\ \A k \in 1..Len(waits) :
          waits[k].suggested # 0 => waits[k].wait_time = waits[k].suggested + 1
    /\ \A k \in 1..(Len(waits) - 1) :
          (waits[k].suggested = 0 /\ waits[k + 1].suggested = 0) =>
              waits[k + 1].wait_time = 2 * waits[k].wait_time

\* C31 as claimed: every fetch adapter returns a list, possibly empty, and
\* none raises to the collector stage.
C31_NoAdapterRaises ==
    \A f \in scrapers_done : f \notin scrapers_failed

\* Every store call made so far in this invocation has failed: both deletion
\* calls, the scan of the known links (nothing was read), the insert (no
\* record was added) and the read of the pending list (nothing was read).
StoreCallsAllFailed ==
    /\ expired_result = CallFailed
    /\ stale_result = CallFailed
    /\ existing_links = {}
    /\ \A l \in Links : raw_opportunities[l] \in {"absent", "processed_relevant"}
    /\ opportunities_to_process = <<>>

\* C32 as claimed: when the store is unreachable for the whole invocation the
\* run is aborted at the failing stage: with every store call failing from the
\* maintenance stage on, neither the collector stage nor the processor stage
\* is executed.
C32_UnreachableStoreAbortsRun ==
    StoreCallsAllFailed => (collector_stage = "idle" /\ stage = "idle")

\* The first well-formed JSON object of a text made of prose and of JSON
\* objects.
FirstObject(text) == text[CHOOSE i \in Braced(text) : \A j \in Braced(text) : i <= j].data

\* C33 as claimed: for a response text made of prose around one or more JSON
\* objects the adapter returns the first well-formed JSON object of the text,
\* whatever follows it.
C33_FirstJsonObjectExtracted ==
    (/\ extracted # NotExtracted
     /\ Braced(response_segments) # {}
     /\ \A i \in Braced(response_segments) : response_segments[i].kind = "object")
    => extracted.data = FirstObject(response_segments)

\* The classifier has answered every call of the current run (no attempt has
\* failed, no call has returned None), the pending list was read and the bulk
\* update has not failed.
ClassifierAndStoreAnswer ==
    /\ ai_model = "configured"
    /\ \A l \in Links :
         /\ attempt[l] = 0
         /\ geo_response[l].kind # "None"
         /\ enrichment_response[l].kind # "None"
    /\ bulk_update_result # "failed"
    /\ (stage = "finished" /\ opportunities_to_process = <<>>)
          => \A l \in Links : raw_opportunities[l] # "pending_analysis"

\* C34 as claimed: under repeated runs with weak fairness, if from some run on
\* the classifier answers every call and the store calls succeed, then every
\* record eventually has a terminal status for good.
C34_PendingEventuallyTerminal ==
    (<>[]ClassifierAndStoreAnswer)
        => <>[](\A l \in Links : raw_opportunities[l] # "pending_analysis")

TerminalStatuses ==
    {"processed_relevant", "processed_irrelevant", "processed_ai_error", "processed_expired"}

\* C35: over successive runs a record's status changes only from
\* pending_analysis to a terminal status; a record with a terminal status is
\* not submitted for analysis again and keeps its status.
C35_TerminalStatusAbsorbing ==
    [][\A l \in Links :
          /\ raw_opportunities'[l] # raw_opportunities[l] =>
                (/\ raw_opportunities[l] = "pending_analysis"
                 /\ raw_opportunities'[l] \in TerminalStatuses)
          /\ raw_opportunities[l] \in TerminalStatuses =>
                (/\ raw_opportunities'[l] = raw_opportunities[l]
                 /\ l \notin Range(opportunities_to_process')
                 /\ pc'[l] \in {pc[l], "none"})]_vars

\* C35 witness: a second run is analysing a record that stayed pending while
\* the record committed by the first run keeps its status and is left out.
C35_Witness ==
    /\ run = 2
    /\ stage = "analysing"
    /\ \E l, m \in Links :
         /\ raw_opportunities[l] \in TerminalStatuses
         /\ pc[l] = "none"
         /\ raw_opportunities[m] = "pending_analysis"
         /\ pc[m] # "none"

\* The enrichment adapter returned an object for l that carries neither the
\* failure token nor an error token (main.py:204-212).
NeitherFailureNorError(l) ==
    /\ enrichment_response[l].kind = "text"
    /\ enrichment_response[l].body = "json"
    /\ ~EnrichmentDataRaises(enrichment_response[l])
    /\ LET summary == Get(EnrichmentOf(l).summary, Str(""))
       IN  /\ summary.t = "str"
           /\ ~Contains(summary.v, "AI call failed")
           /\ ~Contains(summary.v, "malformed JSON")
           /\ ~Contains(summary.v, "No JSON object")
    /\ Get(EnrichmentOf(l).funding_amount, Str("")) # Str("Error")

\* The deadline text of l's enrichment object is absent, no text, a non-date
\* keyword, unparseable, or a date that is today or later.
DeadlineAbsentOrNotPast(l) ==
    LET deadline == Get(EnrichmentOf(l).deadline, Null)
    IN  \/ deadline.t # "str"
        \/ deadline.v = ""
        \/ HasNonDateKeyword(deadline.v)
        \/ parse_date(deadline.v) = 0
        \/ parse_date(deadline.v) >= today

\* C36: every item whose enrichment result is neither a failure nor an error
\* and whose normalized deadline is absent, unparseable, today or later has
\* returned processed_relevant after exactly one processed-store write; and
\* every row the workers wrote has a deadline that is null or not before today.
C36_NotPastDeadlineRelevantOneWrite ==
    /\ \A l \in Links :
          (NeitherFailureNorError(l) /\ DeadlineAbsentOrNotPast(l)) =>
              /\ future[l] = Returned("True", <<StatusUpdate(l, "processed_relevant")>>)
              /\ upsert_calls[l] = 1
    /\ \A l \in Links :
          processed_rows[l] # NoRow =>
              \/ processed_rows[l].deadline = Null
              \/ strptime(processed_rows[l].deadline.v) >= today

\* C36 witness: in one run an item with the deadline 2025-01-01 (today) and an
\* item with the unparseable deadline "To be announced" have both returned
\* processed_relevant, each with one write, and both rows are stored.
C36_Witness ==
    \E l, m \in Links :
        /\ NeitherFailureNorError(l)
        /\ EnrichmentOf(l).deadline = Str("2025-01-01")
        /\ future[l] = Returned("True", <<StatusUpdate(l, "processed_relevant")>>)
        /\ upsert_calls[l] = 1
        /\ processed_rows[l] # NoRow
        /\ processed_rows[l].deadline = Str("2025-01-01")
        /\ NeitherFailureNorError(m)
        /\ EnrichmentOf(m).deadline = Str("To be announced")
        /\ future[m] = Returned("True", <<StatusUpdate(m, "processed_relevant")>>)
        /\ upsert_calls[m] = 1
        /\ processed_rows[m] # NoRow
        /\ processed_rows[m].deadline = Null

\* The keys the enrichment prompt requires besides focus_areas
\* (ai_analyzer.py:132).
SchemaFields == {"summary", "funding_amount", "funder", "deadline"}

\* The enrichment response of l decoded to an object lacking one of these keys.
LacksSchemaField(l) ==
    /\ enrichment_response[l].kind = "text"
    /\ enrichment_response[l].body = "json"
    /\ \E k \in SchemaFields : EnrichmentOf(l)[k] = Missing

\* C37: no item whose enrichment response is a well-formed JSON object lacking
\* summary, funding_amount, funder or deadline is returned as
\* processed_relevant, and no processed-store write is made for it.
C37_MissingFieldsNotAccepted ==
    \A l \in Links :
        LacksSchemaField(l) =>
            /\ future[l] # Returned("True", <<StatusUpdate(l, "processed_relevant")>>)
            /\ upsert_calls[l] = 0

C39_RaisingAdapterLeavesOthers ==
    /\ [](\A f \in scrapers_failed :
            \A i \in 1..Len(all_new_raw_opportunities) :
                all_new_raw_opportunities[i].source # SourceOf(f))
    /\ [][(scrapers_failed \subseteq scrapers_failed' /\ scrapers_failed' # scrapers_failed) =>
            /\ all_new_raw_opportunities' = all_new_raw_opportunities
            /\ collector_stage' = "scraping"]_vars
    /\ []((/\ collector_stage = "finished"
           /\ scrapers_failed # {}
           /\ all_new_raw_opportunities # <<>>) =>
              /\ Len(insert_calls) = 1
              /\ LinksOf(insert_calls[1]) = LinksOf(all_new_raw_opportunities)
              /\ \A i, j \in 1..Len(insert_calls[1]) :
                    insert_calls[1][i].link = insert_calls[1][j].link => i = j)

\* C39 witness: two adapters raised, the third returned a new link, and the
\* run has ended with that link inserted and stored as pending.
C39_Witness ==
    /\ collector_stage = "finished"
    /\ Cardinality(scrapers_failed) = 2
    /\ Len(insert_calls) = 1
    /\ \E l \in Links :
          /\ LinksOf(insert_calls[1]) = {l}
          /\ l \notin existing_links
          /\ raw_opportunities[l] = "pending_analysis"

====
